---- MODULE Spec2Model ----
(***************************************************************************)
(* Model of DatasetHDF5Persistence (ion/data/persist/hdf5_dataset.py):     *)
(* one HDF5 container of one dataset id, shared by independent callers,    *)
(* each holding its own persistence object.  Every public operation is a  *)
(* sequence of steps of one caller; steps of different callers interleave. *)
(* Python indices are 0-based, sequences here are 1-based: the row with   *)
(* Python index i is rows[i+1].                                            *)
(***************************************************************************)
EXTENDS Integers, Sequences, FiniteSets, TLC

(* ------------------------------ bounds --------------------------------- *)
\* largest row_increment a schema is given
MaxIncrement == 2
\* largest number of rows in one packet
MaxBatch == 2
\* number of packets that are appended in one behaviour
MaxPackets == 2
\* number of storage failures (h5py raising) injected in one behaviour
MaxFaults == 1

(* ------------------------- program constants --------------------------- *)
DS_LAYOUT_COMBINED == "vars_combined"
DS_LAYOUT_INDIVIDUAL == "vars_individual"
DS_VARIABLES == "data"
DEFAULT_TIME_VARIABLE == "time"
\* retry_count=10 passed to every HDFLockingFile
RETRY_COUNT == 10

\* independent callers, each with its own DatasetHDF5Persistence object
Callers == {"c1", "c2"}

Layouts == {DS_LAYOUT_INDIVIDUAL, DS_LAYOUT_COMBINED}

\* self.var_defs: the schema's variables in declaration order
var_defs == << [name |-> "time", base_type |-> "ntp_time"],
               [name |-> "temp", base_type |-> "float"] >>

ds_var_names == [i \in 1..Len(var_defs) |-> var_defs[i].name]

\* every dataset path "vars/<name>" a container of this schema can hold
DsNames == {var_defs[i].name : i \in 1..Len(var_defs)} \cup {DS_VARIABLES}

\* packet.data["cols"]: the column lists callers send; "humidity" is no
\* variable of the schema, and one list names a variable twice
PacketCols == { <<"time", "temp">>, <<"temp">>, <<"time">>,
                <<"humidity", "temp">>, <<"temp", "temp">> }

ColCode(name) == CASE name = "time" -> 1
                   [] name = "temp" -> 2
                   [] OTHER -> 3

CallerCode(c) == IF c = "c1" THEN 1 ELSE 2

\* packet.data["data"][row][name]: the value that packet number id of the
\* caller with code by has in row row (1-based) of column name; distinct
\* for distinct (by, id, name, row)
PacketValue(by, id, name, row) == by * 1000 + id * 100 + ColCode(name) * 10 + row

\* the packet number a stored value came from, and the caller that sent it
PacketOf(v) == (v % 1000) \div 100

SenderOf(v) == v \div 1000

\* what an extent holds where nothing was written (HDF5 fill value)
Fill == 0
\* None, written for a schema field the packet does not have
Null == 0 - 1
\* an attribute that was never written
NoAttr == 0 - 1

VARIABLES
    dir_exists,     \* the parent directory of the container path exists
    file_exists,    \* os.path.exists(ds_filename)
    file_attrs,     \* data_file.attrs: dataset_id, layout ("" = not written)
    dsets,          \* data_file["vars/<name>"] for every name of DsNames
    lock,           \* the lock each caller's HDFLockingFile holds
    pc,             \* each caller's position in its operation
    attempts,       \* failed lock acquisitions of the current open
    packet,         \* the packet of the caller's running extend_dataset
    idx,            \* loop index (variable, column or row) of the caller
    cur_idx,        \* local cur_idx of extend_dataset
    result,         \* outcome of the caller's last (or running) operation
    ds_layout,      \* self.ds_layout of each caller's persistence object
    ds_increment,   \* self.ds_increment of each caller's persistence object
    dataset_schema, \* the schema description of the dataset (ds_schema)
    compiled,       \* what else _parse_schema set in each caller's object
    next_id,        \* number of the next packet
    faults,         \* storage failures injected so far
    log,            \* history: per extent, the values committed, in order
    rows_by,        \* history: per caller and extent, rows it committed
    start_row       \* history: every last_row when the caller's running
                    \* extend_dataset took the lock

vars == << dir_exists, file_exists, file_attrs, dsets, lock, pc, attempts,
           packet, idx, cur_idx, result, ds_layout, ds_increment, dataset_schema, compiled, next_id,
           faults, log, rows_by, start_row >>

fileVars == << file_exists, file_attrs, dsets >>

NoDset == [present |-> FALSE, size |-> 0, last_row |-> NoAttr,
           position |-> NoAttr, base_type |-> "", rows |-> << >>]

NoPacket == [id |-> 0, by |-> 0, cols |-> << >>, num_rows |-> 0]

\* max_rows when the filter has none
DEFAULT_MAX_ROWS == 999999999

\* data_filter: the filters callers query with; variables << >> is "not
\* given", which reads every variable of the schema
NoFilter == [variables |-> << >>, time_format |-> "unix_millis",
             max_rows |-> DEFAULT_MAX_ROWS, transpose_time |-> FALSE]

Filters == { NoFilter,
             [NoFilter EXCEPT !.max_rows = 1, !.transpose_time = TRUE],
             [NoFilter EXCEPT !.variables = <<"humidity", "temp">>, !.max_rows = 0],
             [NoFilter EXCEPT !.variables = <<"temp">>, !.transpose_time = TRUE],
             [NoFilter EXCEPT !.time_format = "ntp", !.max_rows = 3] }

NoResult == [op |-> "", status |-> "", created |-> FALSE, data |-> << >>,
             filter |-> NoFilter]

Result(op, status) == [NoResult EXCEPT !.op = op, !.status = status]

(* -------------------------- _parse_schema ------------------------------ *)
DEFAULT_ROW_INCREMENT == 1000

\* a key the description does not have
Missing == "<missing>"

\* row_increment as the description gives it: not at all, as an integer,
\* or as text (a sequence of characters)
NoIncrement == [kind |-> "missing", num |-> 0, text |-> << >>]

IntIncrement(i) == [kind |-> "int", num |-> i, text |-> << >>]

StrIncrement(t) == [kind |-> "str", num |-> 0, text |-> t]

\* dataset_schema["attributes"].get("persistence", None) or {}: no
\* "persistence" entry, None and {} all give a mapping without keys
NoAttrs == [given |-> FALSE, layout |-> Missing, row_increment |-> NoIncrement,
            time_variable |-> Missing]

persistence_attrs(schema) ==
    IF schema.persistence.given THEN schema.persistence ELSE NoAttrs

\* dict.get(key, default)
Get(value, default) == IF value = Missing THEN default ELSE value

\* an illegal layout kept as given
ParseLayout_kept(attrs) == Get(attrs.layout, DS_LAYOUT_INDIVIDUAL)

\* lines 49-52: self.ds_layout
ParseLayout(attrs) ==
    LET given == Get(attrs.layout, DS_LAYOUT_INDIVIDUAL)
    IN  IF given \notin {DS_LAYOUT_COMBINED, DS_LAYOUT_INDIVIDUAL}
        THEN DS_LAYOUT_INDIVIDUAL ELSE given

\* line 51: log.warn("Illegal dataset persistence layout ...")
LayoutWarned(attrs) ==
    Get(attrs.layout, DS_LAYOUT_INDIVIDUAL) \notin {DS_LAYOUT_COMBINED, DS_LAYOUT_INDIVIDUAL}

\* int(x) of line 53: an integer as it is, text read as a decimal number
DigitChars == << "0", "1", "2", "3", "4", "5", "6", "7", "8", "9" >>

IsDigit(ch) == \E i \in 1..Len(DigitChars) : DigitChars[i] = ch

DigitVal(ch) == (CHOOSE i \in 1..Len(DigitChars) : DigitChars[i] = ch) - 1

RECURSIVE Decimal(_)
Decimal(t) ==
    IF t = << >> THEN 0
    ELSE 10 * Decimal(SubSeq(t, 1, Len(t) - 1)) + DigitVal(t[Len(t)])

\* int(x) raises ValueError
IntFails(ri) ==
    ri.kind = "str" /\ (ri.text = << >> \/ \E i \in 1..Len(ri.text) : ~IsDigit(ri.text[i]))

IntOf(ri) == IF ri.kind = "int" THEN ri.num ELSE Decimal(ri.text)

\* line 53: self.ds_increment
ParseIncrement(attrs) ==
    IF attrs.row_increment.kind = "missing" THEN DEFAULT_ROW_INCREMENT
    ELSE IntOf(attrs.row_increment)

\* line 57: self.time_var
ParseTimeVar(attrs) == Get(attrs.time_variable, DEFAULT_TIME_VARIABLE)

\* lines 59-62: self.var_index, the position of every variable name; a
\* later variable of the same name replaces the earlier one
ParseVarIndex(variables) ==
    [n \in {variables[i].name : i \in 1..Len(variables)} |->
        (CHOOSE i \in 1..Len(variables) :
            /\ variables[i].name = n
            /\ \A j \in 1..Len(variables) : variables[j].name = n => j <= i) - 1]

\* an object that _parse_schema has not worked on
NotCompiled == [status |-> "", time_var |-> "", var_index |-> << >>, warned |-> FALSE]

\* what _parse_schema leaves in the object besides layout and increment
Compiled(schema) ==
    LET attrs == persistence_attrs(schema) IN
    IF IntFails(attrs.row_increment)
    THEN [NotCompiled EXCEPT !.status = "ValueError", !.warned = LayoutWarned(attrs)]
    ELSE [status |-> "ok", time_var |-> ParseTimeVar(attrs),
          var_index |-> ParseVarIndex(schema.variables),
          warned |-> LayoutWarned(attrs)]

\* __init__ and _parse_schema (lines 35-62) for caller c's object
parse_schema(c) ==
    /\ pc[c] = "idle" /\ compiled[c].status = ""
    /\ LET attrs == persistence_attrs(dataset_schema) IN
       /\ ds_layout' = [ds_layout EXCEPT ![c] = ParseLayout(attrs)]
       /\ ds_increment' = [ds_increment EXCEPT ![c] =
                             IF IntFails(attrs.row_increment) THEN @
                             ELSE ParseIncrement(attrs)]
    /\ compiled' = [compiled EXCEPT ![c] = Compiled(dataset_schema)]
    /\ UNCHANGED << dir_exists, fileVars, lock, pc, attempts, packet, idx,
                    cur_idx, result, dataset_schema, next_id, faults, log,
                    rows_by, start_row >>

\* the description of a dataset with the variables var_defs, the given
\* layout and the given row_increment
SchemaOf(layout, increment) ==
    [persistence |-> [given |-> TRUE, layout |-> layout,
                      row_increment |-> IntIncrement(increment),
                      time_variable |-> Missing],
     variables |-> var_defs]

(* --------------------- Locked File Accessor ---------------------------- *)
\* the lock a file mode asks for: exclusive for writes, shared for reads
LockKind(mode) == IF mode = "r" THEN "shared" ELSE "exclusive"

\* whether caller c can take a lock of this kind now
CanLock(c, kind) ==
    IF kind = "exclusive"
    THEN \A d \in Callers \ {c} : lock[d] = "none"
    ELSE \A d \in Callers \ {c} : lock[d] # "exclusive"

\* one acquisition attempt of HDFLockingFile(name, mode, retry_count, ...)
OpenOutcome(c, mode, retry_count) ==
    IF CanLock(c, LockKind(mode)) THEN "locked"
    ELSE IF attempts[c] + 1 < retry_count THEN "retry"
    ELSE "LockTimeout"

(* ------------------------ require_dataset ------------------------------ *)
\* the container created through a file opened for reading
RequireMode_read == "r"

RequireMode == "w"

\* the container extended through a file opened for reading
ExtendMode_read == "r"

ExtendMode == "r+"

\* the container queried through a file opened with mode "w"
GetDataMode_write == "w"

\* line 167: the mode get_data opens the file with
GetDataMode == "r"

\* line 214: the mode dump_hdf5 opens the file with
DumpMode == "r"

\* what opening the file with a mode does to it: mode "w" creates it or
\* truncates it, "r" and "r+" leave it as it is
OpenFile(mode) ==
    IF mode = "w"
    THEN /\ file_exists' = TRUE
         /\ file_attrs' = [dataset_id |-> "", layout |-> ""]
         /\ dsets' = [n \in DsNames |-> NoDset]
    ELSE UNCHANGED fileVars

\* a makedirs that raises whatever it finds
MakedirsRaises_always(exists) == TRUE

\* a makedirs that accepts an existing directory
MakedirsRaises_never(exists) == FALSE

\* os.makedirs raises OSError when the leaf directory exists
MakedirsRaises(exists) == exists

\* one row too many allocated at creation
initial_shape_off(increment) == increment + 1

\* initial_shape = (self.ds_increment, )
initial_shape(increment) == increment

\* dset.attrs["last_row"] = 0
InitialLastRow == 0

FillRows(n, v) == [i \in 1..n |-> v]

\* the fill record of the combined dataset: one field per schema variable
FillRecord == [i \in 1..Len(var_defs) |-> Fill]

\* no finally clause: the exception leaves the operation at once
Finally_skipped(close_pc) == "idle"

\* where an exception raised inside a try block continues: the finally
\* clause that closes data_file
Finally(close_pc) == close_pc

Raise(c, status, to_pc) ==
    /\ pc' = [pc EXCEPT ![c] = to_pc]
    /\ result' = [result EXCEPT ![c].status = status]

Return(c, status) == Raise(c, status, "idle")

\* the LockTimeout caught and the body entered without the lock
OnLockTimeout_swallowed(c, body_pc) == Raise(c, "LockTimeout", body_pc)

\* HDFLockingFile(...) is called outside any try: its LockTimeout leaves
\* the operation at once, and the body (at body_pc) is never entered
OnLockTimeout(c, body_pc) == Return(c, "LockTimeout")

\* the existence check left out: every call goes on to create
RequireFinds_never(exists) == FALSE

\* line 71: os.path.exists(ds_filename)
RequireFinds(exists) == exists

\* lines 70-72: the existence check, and the idempotent return
require_dataset(c) ==
    /\ pc[c] = "idle"
    /\ IF RequireFinds(file_exists)
       THEN /\ result' = [result EXCEPT ![c] = Result("require_dataset", "ok")]
            /\ pc' = pc
       ELSE /\ result' = [result EXCEPT ![c] = Result("require_dataset", "running")]
            /\ pc' = [pc EXCEPT ![c] = "req_makedirs"]
    /\ UNCHANGED << dir_exists, fileVars, lock, attempts, packet, idx, cur_idx,
                    ds_layout, ds_increment, dataset_schema, compiled, next_id, faults, log, rows_by, start_row >>

\* line 75: os.makedirs(os.path.split(ds_filename)[0])
require_makedirs(c) ==
    /\ pc[c] = "req_makedirs"
    /\ IF MakedirsRaises(dir_exists)
       THEN Return(c, "OSError") /\ UNCHANGED dir_exists
       ELSE /\ dir_exists' = TRUE
            /\ pc' = [pc EXCEPT ![c] = "req_open"]
            /\ UNCHANGED result
    /\ UNCHANGED << fileVars, lock, attempts, packet, idx, cur_idx,
                    ds_layout, ds_increment, dataset_schema, compiled, next_id, faults, log, rows_by, start_row >>

\* line 77: HDFLockingFile(ds_filename, "w", ...): mode "w" creates the
\* file, truncating an existing one
require_open(c) ==
    /\ pc[c] = "req_open"
    /\ LET out == OpenOutcome(c, RequireMode, RETRY_COUNT) IN
       CASE out = "locked" ->
              /\ lock' = [lock EXCEPT ![c] = LockKind(RequireMode)]
              /\ file_exists' = TRUE
              /\ file_attrs' = [dataset_id |-> "", layout |-> ""]
              /\ dsets' = [n \in DsNames |-> NoDset]
              /\ attempts' = [attempts EXCEPT ![c] = 0]
              /\ pc' = [pc EXCEPT ![c] = "req_attrs"]
              /\ UNCHANGED result
         [] out = "retry" ->
              /\ attempts' = [attempts EXCEPT ![c] = @ + 1]
              /\ UNCHANGED << fileVars, lock, pc, result >>
         [] OTHER ->
              /\ attempts' = [attempts EXCEPT ![c] = 0]
              /\ OnLockTimeout(c, "req_attrs")
              /\ UNCHANGED << fileVars, lock >>
    /\ UNCHANGED << dir_exists, packet, idx, cur_idx, ds_layout, ds_increment, dataset_schema, compiled,
                    next_id, faults, log, rows_by, start_row >>

\* lines 79-83: the file attributes and the "vars" group
require_attrs(c) ==
    /\ pc[c] = "req_attrs"
    /\ file_attrs' = [dataset_id |-> "ds", layout |-> ds_layout[c]]
    /\ idx' = [idx EXCEPT ![c] = 1]
    /\ pc' = [pc EXCEPT ![c] = IF ds_layout[c] = DS_LAYOUT_INDIVIDUAL
                                THEN "req_var" ELSE "req_combined"]
    /\ UNCHANGED << dir_exists, file_exists, dsets, lock, attempts, packet,
                    cur_idx, result, ds_layout, ds_increment, dataset_schema, compiled, next_id, faults,
                    log, rows_by, start_row >>

\* the position counted from one
NewVarDset_from_one(c, position) ==
    [present |-> TRUE, size |-> initial_shape(ds_increment[c]),
     last_row |-> InitialLastRow, position |-> position + 1,
     base_type |-> dataset_schema.variables[position + 1].base_type,
     rows |-> FillRows(initial_shape(ds_increment[c]), Fill)]

\* lines 86-96: one round of the loop over self.var_defs
NewVarDset(c, position) ==
    [present |-> TRUE, size |-> initial_shape(ds_increment[c]),
     last_row |-> InitialLastRow, position |-> position,
     base_type |-> dataset_schema.variables[position + 1].base_type,
     rows |-> FillRows(initial_shape(ds_increment[c]), Fill)]

require_var(c) ==
    /\ pc[c] = "req_var"
    /\ LET name == var_defs[idx[c]].name IN
       dsets' = [dsets EXCEPT ![name] = NewVarDset(c, idx[c] - 1)]
    /\ idx' = [idx EXCEPT ![c] = @ + 1]
    /\ pc' = [pc EXCEPT ![c] = IF idx[c] = Len(var_defs) THEN "req_close" ELSE "req_var"]
    /\ UNCHANGED << dir_exists, file_exists, file_attrs, lock, attempts, packet,
                    cur_idx, result, ds_layout, ds_increment, dataset_schema, compiled, next_id, faults,
                    log, rows_by, start_row >>

\* lines 99-109: the one dataset of composite records
NewCombinedDset(c) ==
    [present |-> TRUE, size |-> initial_shape(ds_increment[c]),
     last_row |-> InitialLastRow, position |-> NoAttr, base_type |-> "",
     rows |-> FillRows(initial_shape(ds_increment[c]), FillRecord)]

require_combined(c) ==
    /\ pc[c] = "req_combined"
    /\ dsets' = [dsets EXCEPT ![DS_VARIABLES] = NewCombinedDset(c)]
    /\ pc' = [pc EXCEPT ![c] = "req_close"]
    /\ UNCHANGED << dir_exists, file_exists, file_attrs, lock, attempts, packet,
                    idx, cur_idx, result, ds_layout, ds_increment, dataset_schema, compiled, next_id,
                    faults, log, rows_by, start_row >>

\* h5py raising inside the try block of require_dataset: before anything
\* of the current statement was stored, or (creating a dataset) after
\* create_dataset and before its last_row attribute was written
require_fault(c) ==
    /\ pc[c] \in {"req_attrs", "req_var", "req_combined"}
    /\ faults < MaxFaults
    /\ faults' = faults + 1
    /\ Raise(c, "StorageIOError", Finally("req_close"))
    /\ \/ UNCHANGED dsets
       \/ /\ pc[c] = "req_var"
          /\ dsets' = [dsets EXCEPT ![var_defs[idx[c]].name] =
                         [NewVarDset(c, idx[c] - 1) EXCEPT !.last_row = NoAttr]]
       \/ /\ pc[c] = "req_combined"
          /\ dsets' = [dsets EXCEPT ![DS_VARIABLES] =
                         [NewCombinedDset(c) EXCEPT !.last_row = NoAttr]]
    /\ UNCHANGED << dir_exists, file_exists, file_attrs, lock, attempts, packet,
                    idx, cur_idx, ds_layout, ds_increment, dataset_schema, compiled, next_id, log, rows_by, start_row >>

\* lines 110-113: finally data_file.close(), then return (or re-raise)
require_close(c) ==
    /\ pc[c] = "req_close"
    /\ lock' = [lock EXCEPT ![c] = "none"]
    /\ pc' = [pc EXCEPT ![c] = "idle"]
    /\ result' = [result EXCEPT ![c] =
                    IF @.status = "running"
                    THEN [@ EXCEPT !.status = "ok", !.created = TRUE] ELSE @]
    /\ idx' = [idx EXCEPT ![c] = 0]
    /\ UNCHANGED << dir_exists, fileVars, attempts, packet, cur_idx,
                    ds_layout, ds_increment, dataset_schema, compiled, next_id, faults, log, rows_by, start_row >>

(* ------------------------- extend_dataset ------------------------------ *)
\* the "+ 1" forgotten: only the whole increments of the batch are added
resize_dataset_short(cur_size, num_rows, increment) ==
    cur_size + (num_rows \div increment) * increment

\* growth by the batch's rows instead of whole increments
resize_dataset_exact(cur_size, num_rows, increment) == cur_size + num_rows

\* _resize_dataset: new_size = cur_size + (int(num_rows / inc) + 1) * inc
resize_dataset(cur_size, num_rows, increment) ==
    cur_size + ((num_rows \div increment) + 1) * increment

\* growth already when the batch fits exactly
NeedsResize_ge(idx0, num_rows, cur_size) == idx0 + num_rows >= cur_size

\* lines 135 and 148: if cur_idx + num_rows > cur_size
NeedsResize(idx0, num_rows, cur_size) == idx0 + num_rows > cur_size

\* var_ds.resize(new_size, axis=0): the rows kept, the new ones filled
Resized(d, new_size, fill) ==
    [d EXCEPT !.size = new_size,
              !.rows = [i \in 1..new_size |-> IF i <= Len(d.rows) THEN d.rows[i] ELSE fill]]

\* lines 133-136 and 146-149
ResizeIfNeeded(d, num_rows, increment, fill) ==
    IF NeedsResize(d.last_row, num_rows, d.size)
    THEN Resized(d, resize_dataset(d.size, num_rows, increment), fill)
    ELSE d

\* data_slice = packet.data["data"][:][var_name]
data_slice(pkt, name) ==
    [r \in 1..pkt.num_rows |-> PacketValue(pkt.by, pkt.id, name, r)]

\* the slice one row late
SliceStart_off(idx0) == idx0 + 1

\* the slice one row early, over the last committed row
SliceStart_early(idx0) == IF idx0 > 0 THEN idx0 - 1 ELSE 0

\* the first Python index of var_ds[cur_idx:cur_idx+num_rows]
SliceStart(idx0) == idx0

\* var_ds[cur_idx:cur_idx+num_rows] = data_slice, its first k rows stored
WriteSlice(rows, idx0, k, vals) ==
    [i \in 1..Len(rows) |->
        IF SliceStart(idx0) < i /\ i <= SliceStart(idx0) + k
        THEN vals[i - SliceStart(idx0)] ELSE rows[i]]

\* last_row advanced one row too far
AdvanceLastRow_extra(last_row, num_rows) == last_row + num_rows + 1

\* var_ds.attrs["last_row"] += num_rows
AdvanceLastRow(last_row, num_rows) == last_row + num_rows

\* row_vals = tuple(row_data[vn] if vn in pvi else None for vn in ds_var_names)
InCols(name, cols) == \E i \in 1..Len(cols) : cols[i] = name

\* the record filled in the order of the packet's columns
row_vals_cols(pkt, row) ==
    [i \in 1..Len(ds_var_names) |->
        IF i <= Len(pkt.cols)
        THEN PacketValue(pkt.by, pkt.id, pkt.cols[i], row) ELSE Null]

row_vals(pkt, row) ==
    [i \in 1..Len(ds_var_names) |->
        IF InCols(ds_var_names[i], pkt.cols)
        THEN PacketValue(pkt.by, pkt.id, ds_var_names[i], row) ELSE Null]

HasDset(name) == name \in DsNames /\ dsets[name].present

\* the loop over packet.data["cols"] goes on, or the try block ends
NextCol(c) == IF idx[c] < Len(packet[c].cols) THEN "ext_var" ELSE "ext_close"

\* the loop left at the first unknown column: break instead of continue
SkipColumn_break(c) == "ext_close"

\* lines 129-131: a column the container has no dataset for: continue
SkipColumn(c) == NextCol(c)

\* the call: a packet arrives
extend_dataset(c) ==
    /\ pc[c] = "idle"
    /\ next_id <= MaxPackets
    /\ next_id' = next_id + 1
    /\ packet' = [packet EXCEPT ![c] = [NoPacket EXCEPT !.id = next_id,
                                                         !.by = CallerCode(c)]]
    /\ result' = [result EXCEPT ![c] = Result("extend_dataset", "running")]
    /\ pc' = [pc EXCEPT ![c] = "ext_open"]
    /\ UNCHANGED << dir_exists, fileVars, lock, attempts, idx, cur_idx,
                    ds_layout, ds_increment, dataset_schema, compiled, faults, log, rows_by, start_row >>

\* lines 122 and 127: the packet's columns and rows.  They are fixed at the
\* call; nothing reads them before the try block is entered, so they are
\* drawn there: the columns from packet_cols, the number of rows from
\* batch_rows[id], the sizes the packet with that number may have.
EnterBody(c, packet_cols, batch_rows) ==
    /\ \E cols \in packet_cols, n \in batch_rows[packet[c].id] :
         packet' = [packet EXCEPT ![c].cols = cols, ![c].num_rows = n]
    /\ idx' = [idx EXCEPT ![c] = 1]

\* line 124: HDFLockingFile(ds_filename, "r+", ...); mode "r+" needs the
\* file to exist
extend_open(c, packet_cols, batch_rows) ==
    /\ pc[c] = "ext_open"
    /\ IF ~file_exists
       THEN /\ Return(c, "IOError")
            /\ packet' = [packet EXCEPT ![c] = NoPacket]
            /\ UNCHANGED << lock, attempts, idx, start_row >>
       ELSE LET out == OpenOutcome(c, ExtendMode, RETRY_COUNT) IN
            CASE out = "locked" ->
                   /\ lock' = [lock EXCEPT ![c] = LockKind(ExtendMode)]
                   /\ attempts' = [attempts EXCEPT ![c] = 0]
                   /\ EnterBody(c, packet_cols, batch_rows)
                   /\ start_row' = [start_row EXCEPT ![c] =
                                      [n \in DsNames |-> dsets[n].last_row]]
                   /\ pc' = [pc EXCEPT ![c] = IF ds_layout[c] = DS_LAYOUT_INDIVIDUAL
                                               THEN "ext_var" ELSE "ext_combined"]
                   /\ UNCHANGED result
              [] out = "retry" ->
                   /\ attempts' = [attempts EXCEPT ![c] = @ + 1]
                   /\ UNCHANGED << lock, packet, idx, pc, result, start_row >>
              [] OTHER ->
                   /\ attempts' = [attempts EXCEPT ![c] = 0]
                   /\ OnLockTimeout(c, IF ds_layout[c] = DS_LAYOUT_INDIVIDUAL
                                       THEN "ext_var" ELSE "ext_combined")
                   /\ IF pc'[c] = "idle"
                      THEN packet' = [packet EXCEPT ![c] = NoPacket] /\ UNCHANGED idx
                      ELSE EnterBody(c, packet_cols, batch_rows)
                   /\ UNCHANGED << lock, start_row >>
    /\ UNCHANGED << dir_exists, fileVars, cur_idx, ds_layout, ds_increment, dataset_schema, compiled,
                    next_id, faults, log, rows_by >>

\* lines 127-136: one column of the packet: skipped when the container has
\* no such variable, else cur_idx is read and the dataset resized
extend_var(c) ==
    /\ pc[c] = "ext_var"
    /\ LET name == packet[c].cols[idx[c]] IN
       IF ~HasDset(name)
       THEN /\ idx' = [idx EXCEPT ![c] = @ + 1]
            /\ pc' = [pc EXCEPT ![c] = SkipColumn(c)]
            /\ UNCHANGED << dsets, cur_idx, result >>
       ELSE IF dsets[name].last_row = NoAttr
       THEN /\ Raise(c, "KeyError", Finally("ext_close"))
            /\ UNCHANGED << dsets, cur_idx, idx >>
       ELSE /\ cur_idx' = [cur_idx EXCEPT ![c] = dsets[name].last_row]
            /\ dsets' = [dsets EXCEPT ![name] =
                           ResizeIfNeeded(@, packet[c].num_rows, ds_increment[c], Fill)]
            /\ pc' = [pc EXCEPT ![c] = "ext_write"]
            /\ UNCHANGED << idx, result >>
    /\ UNCHANGED << dir_exists, file_exists, file_attrs, lock, attempts, packet,
                    ds_layout, ds_increment, dataset_schema, compiled, next_id, faults, log, rows_by, start_row >>

\* lines 137-138: the slice assignment; h5py raises when the slice, cut to
\* the dataset's size, is shorter than the data
extend_write(c) ==
    /\ pc[c] = "ext_write"
    /\ LET name == packet[c].cols[idx[c]]
           n == packet[c].num_rows IN
       IF SliceStart(cur_idx[c]) + n <= dsets[name].size
       THEN /\ dsets' = [dsets EXCEPT ![name].rows =
                           WriteSlice(@, cur_idx[c], n, data_slice(packet[c], name))]
            /\ pc' = [pc EXCEPT ![c] = "ext_commit"]
            /\ UNCHANGED result
       ELSE /\ Raise(c, "TypeError", Finally("ext_close"))
            /\ UNCHANGED dsets
    /\ UNCHANGED << dir_exists, file_exists, file_attrs, lock, attempts, packet,
                    idx, cur_idx, ds_layout, ds_increment, dataset_schema, compiled, next_id, faults, log,
                    rows_by, start_row >>

\* one last_row for all variables: every dataset's attribute advanced
Commit_all(ds, name, num_rows) ==
    [m \in DOMAIN ds |->
        IF ds[m].present /\ ds[m].last_row # NoAttr
        THEN [ds[m] EXCEPT !.last_row = AdvanceLastRow(@, num_rows)]
        ELSE ds[m]]

\* var_ds.attrs["last_row"] += num_rows, var_ds being data_file[ds_path]
\* of the column at hand
Commit(ds, name, num_rows) ==
    [ds EXCEPT ![name].last_row = AdvanceLastRow(@, num_rows)]

\* line 139: var_ds.attrs["last_row"] += num_rows
extend_commit(c) ==
    /\ pc[c] = "ext_commit"
    /\ LET name == packet[c].cols[idx[c]]
           n == packet[c].num_rows IN
       /\ dsets' = Commit(dsets, name, n)
       /\ log' = [log EXCEPT ![name] = @ \o data_slice(packet[c], name)]
       /\ rows_by' = [rows_by EXCEPT ![c][name] = @ + n]
    /\ idx' = [idx EXCEPT ![c] = @ + 1]
    /\ pc' = [pc EXCEPT ![c] = NextCol(c)]
    /\ UNCHANGED << dir_exists, file_exists, file_attrs, lock, attempts, packet,
                    cur_idx, result, ds_layout, ds_increment, dataset_schema, compiled, next_id, faults,
                    start_row >>

\* lines 142-149: the combined dataset is looked up and resized once
extend_combined(c) ==
    /\ pc[c] = "ext_combined"
    /\ IF ~HasDset(DS_VARIABLES)
       THEN /\ Raise(c, "BadRequest", Finally("ext_close"))
            /\ UNCHANGED << dsets, cur_idx, idx >>
       ELSE IF dsets[DS_VARIABLES].last_row = NoAttr
       THEN /\ Raise(c, "KeyError", Finally("ext_close"))
            /\ UNCHANGED << dsets, cur_idx, idx >>
       ELSE /\ cur_idx' = [cur_idx EXCEPT ![c] = dsets[DS_VARIABLES].last_row]
            /\ dsets' = [dsets EXCEPT ![DS_VARIABLES] =
                           ResizeIfNeeded(@, packet[c].num_rows, ds_increment[c], FillRecord)]
            /\ idx' = [idx EXCEPT ![c] = 0]
            /\ pc' = [pc EXCEPT ![c] = IF packet[c].num_rows = 0
                                        THEN "ext_ccommit" ELSE "ext_row"]
            /\ UNCHANGED result
    /\ UNCHANGED << dir_exists, file_exists, file_attrs, lock, attempts, packet,
                    ds_layout, ds_increment, dataset_schema, compiled, next_id, faults, log, rows_by, start_row >>

\* lines 152-155: one round of the loop over the rows; idx is row_idx.
\* h5py raises for an index beyond the dataset's size
extend_row(c) ==
    /\ pc[c] = "ext_row"
    /\ IF cur_idx[c] + idx[c] < dsets[DS_VARIABLES].size
       THEN /\ dsets' = [dsets EXCEPT ![DS_VARIABLES].rows[cur_idx[c] + idx[c] + 1] =
                           row_vals(packet[c], idx[c] + 1)]
            /\ idx' = [idx EXCEPT ![c] = @ + 1]
            /\ pc' = [pc EXCEPT ![c] = IF idx[c] + 1 < packet[c].num_rows
                                        THEN "ext_row" ELSE "ext_ccommit"]
            /\ UNCHANGED result
       ELSE /\ Raise(c, "ValueError", Finally("ext_close"))
            /\ UNCHANGED << dsets, idx >>
    /\ UNCHANGED << dir_exists, file_exists, file_attrs, lock, attempts, packet,
                    cur_idx, ds_layout, ds_increment, dataset_schema, compiled, next_id, faults, log,
                    rows_by, start_row >>

\* line 156: var_ds.attrs["last_row"] += num_rows
extend_ccommit(c) ==
    /\ pc[c] = "ext_ccommit"
    /\ LET n == packet[c].num_rows IN
       /\ dsets' = [dsets EXCEPT ![DS_VARIABLES].last_row = AdvanceLastRow(@, n)]
       /\ log' = [log EXCEPT ![DS_VARIABLES] =
                    @ \o [r \in 1..n |-> row_vals(packet[c], r)]]
       /\ rows_by' = [rows_by EXCEPT ![c][DS_VARIABLES] = @ + n]
    /\ pc' = [pc EXCEPT ![c] = "ext_close"]
    /\ UNCHANGED << dir_exists, file_exists, file_attrs, lock, attempts, packet,
                    idx, cur_idx, result, ds_layout, ds_increment, dataset_schema, compiled, next_id, faults,
                    start_row >>

\* h5py raising inside the try block of extend_dataset: a resize, an
\* attribute update or a row assignment that stores nothing, or a slice
\* assignment that stored only the first k rows of the batch
extend_fault(c) ==
    /\ faults < MaxFaults
    /\ faults' = faults + 1
    /\ \/ /\ \/ pc[c] = "ext_var" /\ HasDset(packet[c].cols[idx[c]])
             \/ pc[c] = "ext_combined" /\ HasDset(DS_VARIABLES)
             \/ pc[c] \in {"ext_commit", "ext_row", "ext_ccommit"}
          /\ UNCHANGED dsets
       \/ /\ pc[c] = "ext_write"
          /\ \E k \in 0..packet[c].num_rows :
               /\ k = 0 \/ k < packet[c].num_rows
               /\ dsets' = [dsets EXCEPT ![packet[c].cols[idx[c]]].rows =
                              WriteSlice(@, cur_idx[c], k,
                                         data_slice(packet[c], packet[c].cols[idx[c]]))]
    /\ Raise(c, "StorageIOError", Finally("ext_close"))
    /\ UNCHANGED << dir_exists, file_exists, file_attrs, lock, attempts, packet,
                    idx, cur_idx, ds_layout, ds_increment, dataset_schema, compiled, next_id, log, rows_by, start_row >>

\* lines 159-160: finally data_file.close()
extend_close(c) ==
    /\ pc[c] = "ext_close"
    /\ lock' = [lock EXCEPT ![c] = "none"]
    /\ pc' = [pc EXCEPT ![c] = "idle"]
    /\ result' = [result EXCEPT ![c].status = IF @ = "running" THEN "ok" ELSE @]
    /\ packet' = [packet EXCEPT ![c] = NoPacket]
    /\ idx' = [idx EXCEPT ![c] = 0]
    /\ cur_idx' = [cur_idx EXCEPT ![c] = 0]
    /\ start_row' = [start_row EXCEPT ![c] = [n \in DsNames |-> 0]]
    /\ UNCHANGED << dir_exists, fileVars, attempts, ds_layout, ds_increment, dataset_schema, compiled,
                    next_id, faults, log, rows_by >>

(* ----------------------------- get_data -------------------------------- *)
\* seconds between the NTP epoch and the Unix epoch, in the model's unit
NtpUnixDelta == 70

\* int(1000 * IonTime.from_ntp64(dv.tostring()).to_unix())
unix_millis(v) == 1000 * (v - NtpUnixDelta)

Max(a, b) == IF a >= b THEN a ELSE b

\* self.time_var and self.var_defs_map[var_name].get("base_type", "")
time_var == DEFAULT_TIME_VARIABLE

BaseType(name) ==
    LET i == CHOOSE j \in 1..Len(dataset_schema.variables) :
                 dataset_schema.variables[j].name = name
    IN  dataset_schema.variables[i].base_type

\* read_vars = data_filter.get("variables", []) or [all names of the schema]
read_vars(f) == IF f.variables = << >> THEN ds_var_names ELSE f.variables

\* the first max_rows rows read instead of the last
Window_first(d, max_rows) ==
    [i \in 1..(IF max_rows < d.last_row THEN max_rows ELSE d.last_row) |-> d.rows[i]]

\* the slice left open at its end: var_ds[max(cur_idx-max_rows, 0):]
Window_open(d, max_rows) ==
    LET first == IF d.last_row - max_rows >= 0 THEN d.last_row - max_rows ELSE 0
    IN  [i \in 1..(d.size - first) |-> d.rows[first + i]]

\* line 181: data_array = var_ds[max(cur_idx-max_rows, 0):cur_idx]
Window(d, max_rows) ==
    LET first == Max(d.last_row - max_rows, 0)
    IN  [i \in 1..(d.last_row - first) |-> d.rows[first + i]]

\* the time variable converted whatever time_format asks for
Converted_any_format(name, f, arr) ==
    IF name = time_var /\ BaseType(name) = "ntp_time"
    THEN [i \in 1..Len(arr) |-> unix_millis(arr[i])]
    ELSE arr

\* lines 182-188: the time variable converted, all else as stored
Converted(name, f, arr) ==
    IF name = time_var /\ BaseType(name) = "ntp_time" /\ f.time_format = "unix_millis"
    THEN [i \in 1..Len(arr) |-> unix_millis(arr[i])]
    ELSE arr

\* the check of line 177 left out: every requested variable of the schema
\* is read, in the container or not
ReadNames_all(f) == {n \in DsNames : InCols(n, read_vars(f))}

\* lines 174-190: res_data after the loop over read_vars
ReadNames(f) == {n \in DsNames : HasDset(n) /\ InCols(n, read_vars(f))}

res_data(f) == [n \in ReadNames(f) |-> Converted(n, f, Window(dsets[n], f.max_rows))]

Min(a, b) == IF a <= b THEN a ELSE b

\* zip(time_series, var_series)
Zip(s, t) == [i \in 1..Min(Len(s), Len(t)) |-> << s[i], t[i] >>]

\* lines 192-195: the time series popped and zipped into every other one
Transposed(res) ==
    [n \in (DOMAIN res) \ {time_var} |-> Zip(res[time_var], res[n])]

\* the existence check left out: every query goes on to open the file
GetDataFinds_always(exists) == TRUE

\* line 165: os.path.exists(ds_filename)
GetDataFinds(exists) == exists

\* the call, and lines 163-166: {} when the file does not exist
get_data(c) ==
    /\ pc[c] = "idle"
    /\ IF ~GetDataFinds(file_exists)
       THEN /\ result' = [result EXCEPT ![c] = Result("get_data", "ok")]
            /\ pc' = pc
       ELSE /\ result' = [result EXCEPT ![c] = Result("get_data", "running")]
            /\ pc' = [pc EXCEPT ![c] = "get_open"]
    /\ UNCHANGED << dir_exists, fileVars, lock, attempts, packet, idx, cur_idx,
                    ds_layout, ds_increment, dataset_schema, compiled, next_id, faults, log, rows_by, start_row >>

\* line 167: HDFLockingFile(ds_filename, "r", ...)
get_open(c) ==
    /\ pc[c] = "get_open"
    /\ LET out == OpenOutcome(c, GetDataMode, RETRY_COUNT) IN
       CASE out = "locked" ->
              /\ lock' = [lock EXCEPT ![c] = LockKind(GetDataMode)]
              /\ OpenFile(GetDataMode)
              /\ attempts' = [attempts EXCEPT ![c] = 0]
              /\ pc' = [pc EXCEPT ![c] = "get_read"]
              /\ UNCHANGED result
         [] out = "retry" ->
              /\ attempts' = [attempts EXCEPT ![c] = @ + 1]
              /\ UNCHANGED << fileVars, lock, pc, result >>
         [] OTHER ->
              /\ attempts' = [attempts EXCEPT ![c] = 0]
              /\ OnLockTimeout(c, "get_read")
              /\ UNCHANGED << fileVars, lock >>
    /\ UNCHANGED << dir_exists, packet, idx, cur_idx, ds_layout,
                    ds_increment, dataset_schema, compiled, next_id, faults, log, rows_by, start_row >>

\* the Combined layout answered with an empty mapping
CombinedQuery_empty(c) ==
    /\ result' = [result EXCEPT ![c].data = << >>]
    /\ pc' = [pc EXCEPT ![c] = "get_close"]

\* lines 199-200: elif self.ds_layout == DS_LAYOUT_COMBINED: raise
\* NotImplementedError()
CombinedQuery(c) == Raise(c, "NotImplementedError", Finally("get_close"))

\* lines 169-202: the body of the try block.  It only reads, and the file
\* cannot change while the lock is held, so it is one step.  The filter is
\* fixed at the call; nothing reads it before this step, so it is drawn here.
get_read(c, filters) ==
    /\ pc[c] = "get_read"
    /\ \E f \in filters :
       IF ds_layout[c] = DS_LAYOUT_COMBINED
       THEN CombinedQuery(c)
       ELSE IF \E n \in ReadNames(f) : dsets[n].last_row = NoAttr
       THEN Raise(c, "KeyError", Finally("get_close"))
       ELSE IF ~f.transpose_time
       THEN /\ result' = [result EXCEPT ![c].filter = f, ![c].data = res_data(f)]
            /\ pc' = [pc EXCEPT ![c] = "get_close"]
       ELSE IF time_var \notin ReadNames(f)
       THEN /\ result' = [result EXCEPT ![c].filter = f, ![c].data = res_data(f),
                                        ![c].status = "KeyError"]
            /\ pc' = [pc EXCEPT ![c] = Finally("get_close")]
       ELSE /\ result' = [result EXCEPT ![c].filter = f,
                                        ![c].data = Transposed(res_data(f))]
            /\ pc' = [pc EXCEPT ![c] = "get_close"]
    /\ UNCHANGED << dir_exists, fileVars, lock, attempts, packet, idx, cur_idx,
                    ds_layout, ds_increment, dataset_schema, compiled, next_id, faults, log, rows_by, start_row >>

\* h5py raising while get_data reads; only the Individual branch reads
get_fault(c) ==
    /\ pc[c] = "get_read"
    /\ ds_layout[c] = DS_LAYOUT_INDIVIDUAL
    /\ faults < MaxFaults
    /\ faults' = faults + 1
    /\ Raise(c, "StorageIOError", Finally("get_close"))
    /\ UNCHANGED << dir_exists, fileVars, lock, attempts, packet, idx, cur_idx,
                    ds_layout, ds_increment, dataset_schema, compiled, next_id, log, rows_by, start_row >>

\* lines 204-205: finally data_file.close(), and the return: result[c].data
\* is the mapping being returned while pc[c] = "get_close"; the caller has
\* taken it once the call has returned
get_close(c) ==
    /\ pc[c] = "get_close"
    /\ lock' = [lock EXCEPT ![c] = "none"]
    /\ pc' = [pc EXCEPT ![c] = "idle"]
    /\ result' = [result EXCEPT ![c] =
                    Result("get_data", IF @.status = "running" THEN "ok" ELSE @.status)]
    /\ UNCHANGED << dir_exists, fileVars, attempts, packet, idx, cur_idx,
                    ds_layout, ds_increment, dataset_schema, compiled, next_id, faults, log, rows_by, start_row >>

(* --------------------------- dump_hdf5 --------------------------------- *)
\* HDF5Tools.dump_hdf5(filename): lines 211-219, called with the path of
\* the container and leave_open left False; a path that does not exist is
\* taken for a file object, and data_file.visit then raises
dump_hdf5(c) ==
    /\ pc[c] = "idle"
    /\ IF ~file_exists
       THEN /\ result' = [result EXCEPT ![c] = Result("dump_hdf5", "AttributeError")]
            /\ pc' = pc
       ELSE /\ result' = [result EXCEPT ![c] = Result("dump_hdf5", "running")]
            /\ pc' = [pc EXCEPT ![c] = "dump_open"]
    /\ UNCHANGED << dir_exists, fileVars, lock, attempts, packet, idx, cur_idx,
                    ds_layout, ds_increment, dataset_schema, compiled, next_id, faults, log, rows_by, start_row >>

\* line 214: HDFLockingFile(data_file, "r", retry_count=10, retry_wait=0.5)
dump_open(c) ==
    /\ pc[c] = "dump_open"
    /\ LET out == OpenOutcome(c, DumpMode, RETRY_COUNT) IN
       CASE out = "locked" ->
              /\ lock' = [lock EXCEPT ![c] = LockKind(DumpMode)]
              /\ OpenFile(DumpMode)
              /\ attempts' = [attempts EXCEPT ![c] = 0]
              /\ pc' = [pc EXCEPT ![c] = "dump_visit"]
              /\ UNCHANGED result
         [] out = "retry" ->
              /\ attempts' = [attempts EXCEPT ![c] = @ + 1]
              /\ UNCHANGED << fileVars, lock, pc, result >>
         [] OTHER ->
              /\ attempts' = [attempts EXCEPT ![c] = 0]
              /\ OnLockTimeout(c, "dump_visit")
              /\ UNCHANGED << fileVars, lock >>
    /\ UNCHANGED << dir_exists, packet, idx, cur_idx, ds_layout,
                    ds_increment, dataset_schema, compiled, next_id, faults, log, rows_by, start_row >>

\* lines 221-237: data_file.visit(dump_item) prints every entry, with or
\* without its data; then the file is closed
dump_visit(c) ==
    /\ pc[c] = "dump_visit"
    /\ lock' = [lock EXCEPT ![c] = "none"]
    /\ pc' = [pc EXCEPT ![c] = "idle"]
    /\ result' = [result EXCEPT ![c].status = "ok"]
    /\ UNCHANGED << dir_exists, fileVars, attempts, packet, idx, cur_idx,
                    ds_layout, ds_increment, dataset_schema, compiled, next_id, faults, log, rows_by, start_row >>

(* -------------------------- specification ------------------------------ *)
\* no container yet, and no caller at work
InitContainer ==
    /\ dir_exists \in BOOLEAN
    /\ file_exists = FALSE
    /\ file_attrs = [dataset_id |-> "", layout |-> ""]
    /\ dsets = [n \in DsNames |-> NoDset]
    /\ lock = [c \in Callers |-> "none"]
    /\ pc = [c \in Callers |-> "idle"]
    /\ attempts = [c \in Callers |-> 0]
    /\ packet = [c \in Callers |-> NoPacket]
    /\ idx = [c \in Callers |-> 0]
    /\ cur_idx = [c \in Callers |-> 0]
    /\ result = [c \in Callers |-> NoResult]
    /\ next_id = 1
    /\ faults = 0
    /\ log = [n \in DsNames |-> << >>]
    /\ rows_by = [c \in Callers |-> [n \in DsNames |-> 0]]
    /\ start_row = [c \in Callers |-> [n \in DsNames |-> 0]]

\* __init__ and _parse_schema of every caller's persistence object, all
\* built from the one schema of the dataset, its row_increment one of
\* increments
InitWith(increments) ==
    /\ InitContainer
    /\ \E l \in Layouts, i \in increments : dataset_schema = SchemaOf(l, i)
    /\ ds_layout = [c \in Callers |-> ParseLayout(persistence_attrs(dataset_schema))]
    /\ ds_increment = [c \in Callers |-> ParseIncrement(persistence_attrs(dataset_schema))]
    /\ compiled = [c \in Callers |-> Compiled(dataset_schema)]

Init == InitWith(1..MaxIncrement)

\* one step of caller c, its packets and filters drawn from the given sets
Step(c, packet_cols, batch_rows, filters) ==
    \/ require_dataset(c) \/ require_makedirs(c) \/ require_open(c)
    \/ require_attrs(c) \/ require_var(c) \/ require_combined(c)
    \/ require_fault(c) \/ require_close(c)
    \/ extend_dataset(c) \/ extend_open(c, packet_cols, batch_rows)
    \/ extend_var(c)
    \/ extend_write(c) \/ extend_commit(c) \/ extend_combined(c)
    \/ extend_row(c) \/ extend_ccommit(c) \/ extend_fault(c)
    \/ extend_close(c)
    \/ get_data(c) \/ get_open(c) \/ get_read(c, filters) \/ get_fault(c)
    \/ get_close(c)
    \/ dump_hdf5(c) \/ dump_open(c) \/ dump_visit(c)

\* independent callers working on the container at the same time, with
\* packets of all or some of the variables and the two commonest filters
ConcurrentCols == { <<"time", "temp">>, <<"temp">> }

ConcurrentFilters == { NoFilter,
                       [NoFilter EXCEPT !.max_rows = 1, !.transpose_time = TRUE] }

\* every packet has 0..MaxBatch rows
AnyBatch == [id \in 1..MaxPackets |-> 0..MaxBatch]

Next == \E c \in Callers : Step(c, ConcurrentCols, AnyBatch, ConcurrentFilters)

Spec == Init /\ [][Next]_vars

\* the layout a schema does not name
OtherLayout(layout) ==
    IF layout = DS_LAYOUT_INDIVIDUAL THEN DS_LAYOUT_COMBINED ELSE DS_LAYOUT_INDIVIDUAL

\* the schema caller c's persistence object is built with: that of the
\* dataset for the first caller, the same with the other layout for the rest
SchemaFor(c) ==
    IF c = "c1" THEN dataset_schema
    ELSE [dataset_schema EXCEPT !.persistence.layout = OtherLayout(@)]

\* two objects on the one container file whose schemas name different
\* layouts
InitMixed ==
    /\ InitContainer
    /\ \E l \in Layouts, i \in 1..MaxIncrement : dataset_schema = SchemaOf(l, i)
    /\ ds_layout = [c \in Callers |-> ParseLayout(persistence_attrs(SchemaFor(c)))]
    /\ ds_increment = [c \in Callers |-> ParseIncrement(persistence_attrs(SchemaFor(c)))]
    /\ compiled = [c \in Callers |-> Compiled(SchemaFor(c))]

SpecMixed == InitMixed /\ [][Next]_vars

\* fair scheduling: a caller inside an operation is not left waiting for
\* its next step forever (a thread that is running, or sleeping between two
\* attempts at the lock, goes on)
FairCols == { <<"time", "temp">> }

FairFilters == { NoFilter }

\* every packet has MaxBatch rows
FullBatch == [id \in 1..MaxPackets |-> {MaxBatch}]

NextFair == \E c \in Callers : Step(c, FairCols, FullBatch, FairFilters)

Running(c) == pc[c] # "idle" /\ Step(c, FairCols, FullBatch, FairFilters)

SpecFair == InitWith({1}) /\ [][NextFair]_vars /\ \A c \in Callers : WF_vars(Running(c))

\* the base types a schema gives its time variable: the NTP encoding, or
\* a plain number
TimeBaseTypes == { "ntp_time", "float" }

\* the variables of var_defs, the time variable with the given base type
VarDefsWith(base_type) ==
    [j \in 1..Len(var_defs) |->
        IF var_defs[j].name = time_var
        THEN [var_defs[j] EXCEPT !.base_type = base_type] ELSE var_defs[j]]

\* as Init, for schemas that differ in the base type of the time variable
InitTimeType ==
    /\ InitContainer
    /\ \E l \in Layouts, i \in 1..MaxIncrement, bt \in TimeBaseTypes :
          dataset_schema = [SchemaOf(l, i) EXCEPT !.variables = VarDefsWith(bt)]
    /\ ds_layout = [c \in Callers |-> ParseLayout(persistence_attrs(dataset_schema))]
    /\ ds_increment = [c \in Callers |-> ParseIncrement(persistence_attrs(dataset_schema))]
    /\ compiled = [c \in Callers |-> Compiled(dataset_schema)]

\* one caller, one operation after the other
NextSeq == Step("c1", PacketCols, AnyBatch, Filters)

SpecSeq == Init /\ [][NextSeq]_vars

SpecTimeType == InitTimeType /\ [][NextSeq]_vars

\* one caller and a schema with row_increment 10: a packet of 5 rows of
\* both variables, then packets of 8 rows, and queries for the last 3 rows
ScenarioIncrement == 10

ScenarioCols == { <<"time", "temp">> }

ScenarioRows == [id \in 1..MaxPackets |-> IF id = 1 THEN {5} ELSE {8}]

ScenarioFilters == { [NoFilter EXCEPT !.max_rows = 3] }

InitScenario == InitWith({ScenarioIncrement})

NextScenario == Step("c1", ScenarioCols, ScenarioRows, ScenarioFilters)

SpecScenario == InitScenario /\ [][NextScenario]_vars

\* the schema compiler alone: schema descriptions with and without
\* persistence attributes, with a layout that is missing, legal or illegal,
\* a row_increment that is missing, an integer, a number as text or no
\* number, with and without a time variable name, and with variable lists
\* that are empty, plain, or name a variable twice
SchemaLayouts == { Missing, DS_LAYOUT_COMBINED, DS_LAYOUT_INDIVIDUAL, "vars_bogus", "" }

SchemaIncrements == { NoIncrement, IntIncrement(1), IntIncrement(MaxIncrement),
                      StrIncrement(<< "1", "0" >>), StrIncrement(<< "x" >>) }

SchemaTimeVars == { Missing, "temp" }

SchemaVariables == { << >>, var_defs, << var_defs[2], var_defs[2] >>,
                     << var_defs[2], var_defs[1], var_defs[2] >> }

RawSchemas ==
    { [persistence |-> NoAttrs, variables |-> v] : v \in SchemaVariables }
    \cup
    { [persistence |-> [given |-> TRUE, layout |-> l, row_increment |-> ri,
                        time_variable |-> t],
       variables |-> v] :
         l \in SchemaLayouts, ri \in SchemaIncrements, t \in SchemaTimeVars,
         v \in SchemaVariables }

InitSchema ==
    /\ InitContainer
    /\ dataset_schema \in RawSchemas
    /\ ds_layout = [c \in Callers |-> ""]
    /\ ds_increment = [c \in Callers |-> 0]
    /\ compiled = [c \in Callers |-> NotCompiled]

NextSchema == \E c \in Callers : parse_schema(c)

SpecSchema == InitSchema /\ [][NextSchema]_vars

(* ------------------------------ claims --------------------------------- *)
\* a dataset of the container whose last_row attribute was written
Live(n) == dsets[n].present /\ dsets[n].last_row # NoAttr

\* the committed rows of a dataset: Python indices 0..last_row-1
Committed(n) == SubSeq(dsets[n].rows, 1, dsets[n].last_row)

IndividualNames == {var_defs[i].name : i \in 1..Len(var_defs)}

\* a step of caller c that raises nothing
Proceeds(c) == result'[c].status = "running"

C1_SliceStep(c) ==
    (pc[c] = "ext_write" /\ pc'[c] = "ext_commit") =>
        LET name == packet[c].cols[idx[c]]
            first == dsets[name].last_row
            n == packet[c].num_rows
        IN  /\ Len(dsets'[name].rows) = Len(dsets[name].rows)
            /\ \A i \in 1..Len(dsets[name].rows) :
                 dsets'[name].rows[i] =
                    IF first < i /\ i <= first + n
                    THEN data_slice(packet[c], name)[i - first]
                    ELSE dsets[name].rows[i]

C1_RowStep(c) ==
    (pc[c] = "ext_row" /\ Proceeds(c)) =>
        LET d == dsets[DS_VARIABLES] IN
        dsets'[DS_VARIABLES].rows =
            [d.rows EXCEPT ![d.last_row + idx[c] + 1] = row_vals(packet[c], idx[c] + 1)]

C1_CommitStep(c) ==
    /\ (pc[c] = "ext_commit" /\ Proceeds(c)) =>
          LET name == packet[c].cols[idx[c]] IN
          /\ dsets'[name].last_row = dsets[name].last_row + packet[c].num_rows
          /\ dsets'[name].rows = dsets[name].rows
    /\ (pc[c] = "ext_ccommit" /\ Proceeds(c)) =>
          /\ dsets'[DS_VARIABLES].last_row =
                dsets[DS_VARIABLES].last_row + packet[c].num_rows
          /\ dsets'[DS_VARIABLES].rows = dsets[DS_VARIABLES].rows

\* C1: an append of n rows to an extent writes exactly the indices
\* [last_row, last_row+n) and then sets last_row to last_row+n, and the
\* committed rows 0..last_row-1 of every extent are always the appended
\* batches one after the other, in append order: no gap, no row written
\* twice, no committed row overwritten.
C1_ContiguousAppends ==
    /\ [](\A n \in DsNames : Live(n) =>
            /\ dsets[n].last_row <= Len(dsets[n].rows)
            /\ Committed(n) = log[n])
    /\ [][\A c \in Callers : C1_SliceStep(c) /\ C1_RowStep(c) /\ C1_CommitStep(c)]_vars

\* C1 witness: an extent holds the rows of two packets, one after the other
C1_Witness ==
    \E n \in IndividualNames :
        /\ Live(n) /\ dsets[n].last_row >= 2
        /\ PacketOf(dsets[n].rows[1]) # PacketOf(dsets[n].rows[dsets[n].last_row])

\* C2: in every reachable state every extent has last_row <= its
\* allocated capacity.
C2_LastRowWithinCapacity ==
    \A n \in DsNames : Live(n) =>
        /\ dsets[n].size = Len(dsets[n].rows)
        /\ dsets[n].last_row <= dsets[n].size

\* C2 witness: an extent that has grown and is full to its last row
C2_Witness ==
    \E n \in DsNames, c \in Callers :
        /\ Live(n) /\ dsets[n].last_row = dsets[n].size
        /\ dsets[n].size > ds_increment[c]

NoDuplicate(cols) == \A i, j \in 1..Len(cols) : i # j => cols[i] # cols[j]

\* the extents an extend_dataset of caller c appends to
Appended(c) ==
    IF ds_layout[c] = DS_LAYOUT_INDIVIDUAL
    THEN {n \in IndividualNames : InCols(n, packet[c].cols) /\ HasDset(n)}
    ELSE {DS_VARIABLES}

\* extend_dataset of caller c is about to return without an exception
ExtendDone(c) == pc[c] = "ext_close" /\ result[c].status = "running"

\* C3: when extend_dataset succeeds for a batch of n rows (a packet that
\* names no column twice), every extent it appended to has last_row
\* larger by exactly n and a capacity >= the new last_row; one resize is
\* always enough: no write ever finds the extent too short.
C3_AppendAdvancesByBatch ==
    \A c \in Callers :
        /\ result[c].status \notin {"TypeError", "ValueError"}
        /\ (ExtendDone(c) /\ NoDuplicate(packet[c].cols)) =>
              \A n \in Appended(c) :
                  /\ dsets[n].last_row = start_row[c][n] + packet[c].num_rows
                  /\ dsets[n].size >= dsets[n].last_row

\* C3 witness: a first append of more rows than one increment has succeeded
C3_Witness ==
    \E c \in Callers : \E n \in Appended(c) :
        /\ ExtendDone(c) /\ NoDuplicate(packet[c].cols)
        /\ start_row[c][n] = 0
        /\ packet[c].num_rows > ds_increment[c]
        /\ dsets[n].last_row = packet[c].num_rows

\* the extents require_dataset creates for caller c's schema
Created(c) == IF ds_layout[c] = DS_LAYOUT_INDIVIDUAL THEN IndividualNames
              ELSE {DS_VARIABLES}

\* require_dataset of caller c has created the container and is returning,
\* or has returned and the caller has called nothing since
JustCreated(c) ==
    /\ result[c].op = "require_dataset"
    /\ \/ pc[c] = "req_close" /\ result[c].status = "running"
       \/ pc[c] = "idle" /\ result[c].created

\* C4: a container newly created by require_dataset has last_row = 0 on
\* every variable extent (Individual) or on the record extent (Combined),
\* each of capacity exactly row_increment.
C4_NewContainer ==
    \A c \in Callers : JustCreated(c) =>
        \A n \in Created(c) :
            /\ dsets[n].present
            /\ dsets[n].last_row = 0
            /\ dsets[n].size = ds_increment[c]
            /\ Len(dsets[n].rows) = ds_increment[c]

\* C4 witness: require_dataset has returned created = True
C4_Witness ==
    \E c \in Callers : pc[c] = "idle" /\ result[c].created /\ ds_increment[c] > 1

\* C5: an extent's capacity never decreases, and it is always a positive
\* multiple of row_increment.
C5_CapacityMonotonic ==
    /\ [](\A n \in DsNames, c \in Callers : dsets[n].present =>
            /\ dsets[n].size > 0
            /\ dsets[n].size % ds_increment[c] = 0)
    /\ [][\A n \in DsNames : dsets[n].present =>
            /\ dsets'[n].present
            /\ dsets'[n].size >= dsets[n].size]_vars

\* C5 witness: an extent has grown by more than one increment, and rows
\* of two packets are committed in it
C5_Witness ==
    \E n \in IndividualNames, c \in Callers :
        /\ dsets[n].present
        /\ dsets[n].size > 2 * ds_increment[c]
        /\ Len(log[n]) > 0 /\ PacketOf(log[n][1]) # PacketOf(log[n][Len(log[n])])

\* C6: no operation ever loses committed rows: an extent stays, its
\* last_row never drops, and a row below last_row never changes.
C6_CommittedRowsKept ==
    [][\A n \in DsNames : Live(n) =>
          /\ Live(n)'
          /\ dsets'[n].last_row >= dsets[n].last_row
          /\ \A i \in 1..dsets[n].last_row : dsets'[n].rows[i] = dsets[n].rows[i]]_vars

\* C6 witness: rows are committed while a require_dataset that found no
\* container is still on its way to create it
C6_Witness ==
    \E n \in DsNames, c \in Callers :
        /\ Live(n) /\ dsets[n].last_row > 0
        /\ pc[c] = "req_makedirs"

RECURSIVE SumRowsBy(_, _)
SumRowsBy(S, n) ==
    IF S = {} THEN 0
    ELSE LET c == CHOOSE x \in S : TRUE IN rows_by[c][n] + SumRowsBy(S \ {c}, n)

\* the caller that sent a stored row
RowSender(n, row) == IF n = DS_VARIABLES
                     THEN SenderOf(CHOOSE v \in {row[i] : i \in 1..Len(row)} : v # Null)
                     ELSE SenderOf(row)

\* the committed rows of dataset n that caller c sent
CommittedBy(c, n) ==
    Cardinality({i \in 1..dsets[n].last_row :
                    RowSender(n, dsets[n].rows[i]) = CallerCode(c)})

\* C7: when callers append to the same container, no batch overwrites
\* rows of another and no last_row increment is lost: last_row is the sum
\* of the sizes of all batches appended, and every caller finds all the
\* rows it appended among the committed ones.
C7_AppendsOfTwoCallers ==
    \A n \in DsNames : Live(n) =>
        /\ dsets[n].last_row = SumRowsBy(Callers, n)
        /\ dsets[n].last_row <= Len(dsets[n].rows)
        /\ \A c \in Callers : CommittedBy(c, n) = rows_by[c][n]

\* C7 witness: both callers have appended rows to one extent
C7_Witness ==
    \E n \in DsNames : Live(n) /\ \A c \in Callers : rows_by[c][n] > 0

\* caller c is inside the try block of require_dataset or extend_dataset
Writing(c) ==
    pc[c] \in {"req_attrs", "req_var", "req_combined", "req_close",
               "ext_var", "ext_write", "ext_commit", "ext_combined",
               "ext_row", "ext_ccommit", "ext_close"}

\* caller c is inside the try block of get_data, or dump_hdf5 visits
Reading(c) == pc[c] \in {"get_read", "get_close", "dump_visit"}

\* C8: a writer (create or append) works under the lock, and while it
\* holds it no other caller, writer or reader, holds it.
C8_WritersExclusive ==
    \A c \in Callers : Writing(c) =>
        /\ lock[c] # "none"
        /\ \A d \in Callers \ {c} : lock[d] = "none"

\* C8 witness: two queries hold the shared lock at the same time
C8_Witness ==
    \A c \in Callers : pc[c] \in {"get_read", "get_close"} /\ lock[c] = "shared"

\* C9: once a create, append or query has returned, normally or by an
\* error, it holds no lock and no open file: a lock is held only inside
\* the operation that took it.
C9_LockReleasedOnReturn ==
    \A c \in Callers :
        /\ pc[c] = "idle" => lock[c] = "none"
        /\ lock[c] # "none" => Writing(c) \/ Reading(c)

\* C9 witness: an operation has returned by an error raised under the lock
C9_Witness ==
    \E c \in Callers :
        /\ pc[c] = "idle"
        /\ result[c].op \in {"require_dataset", "extend_dataset", "get_data"}
        /\ result[c].status \in {"StorageIOError", "KeyError", "BadRequest",
                                 "NotImplementedError"}

\* caller c waits for the lock
Waiting(c) == pc[c] \in {"req_open", "ext_open", "get_open", "dump_open"}

\* C10: an operation makes at most retry_count attempts to take a
\* contended lock; when the last one fails it ends with LockTimeout,
\* holding no lock, and no step it made has changed the container.
C10_LockTimeout ==
    /\ [](\A c \in Callers :
            /\ attempts[c] < RETRY_COUNT
            /\ result[c].status = "LockTimeout" => pc[c] = "idle" /\ lock[c] = "none")
    /\ [][\A c \in Callers :
            /\ (result'[c].status = "LockTimeout" /\ result[c].status # "LockTimeout") =>
                  /\ Waiting(c)
                  /\ attempts[c] = RETRY_COUNT - 1
                  /\ \E d \in Callers \ {c} : lock[d] # "none"
            /\ (Waiting(c) /\ pc'[c] \in {pc[c], "idle"}
                  /\ (pc'[c] # pc[c] \/ attempts'[c] # attempts[c])) =>
                  fileVars' = fileVars]_vars

\* C10 witness: an operation has ended with LockTimeout
C10_Witness ==
    \E c \in Callers : pc[c] = "idle" /\ result[c].status = "LockTimeout"

\* the capacity the resize policy gives an extent of capacity cap that
\* holds last rows and receives a batch of n rows
PolicyCapacity(last, cap, n, inc) ==
    IF last + n > cap THEN cap + ((n \div inc) + 1) * inc ELSE cap

\* C11: when an append has looked at an extent (last_row, capacity) for a
\* batch of num_rows rows, the capacity is capacity + (floor(num_rows /
\* row_increment) + 1) * row_increment if last_row + num_rows > capacity,
\* and unchanged if last_row + num_rows <= capacity, the exact fit included.
C11_ResizePolicy ==
    [][\A c \in Callers :
         /\ (pc[c] = "ext_var" /\ pc'[c] = "ext_write") =>
               LET d == dsets[packet[c].cols[idx[c]]] IN
               dsets'[packet[c].cols[idx[c]]].size =
                   PolicyCapacity(d.last_row, d.size, packet[c].num_rows, ds_increment[c])
         /\ (pc[c] = "ext_combined" /\ pc'[c] \in {"ext_row", "ext_ccommit"}) =>
               LET d == dsets[DS_VARIABLES] IN
               dsets'[DS_VARIABLES].size =
                   PolicyCapacity(d.last_row, d.size, packet[c].num_rows, ds_increment[c])]_vars

\* C11 witness: a batch that fits exactly into the rows left is about to be
\* written, into an extent that has not grown
C11_Witness ==
    \E c \in Callers :
        /\ pc[c] = "ext_write"
        /\ packet[c].num_rows > 0
        /\ LET d == dsets[packet[c].cols[idx[c]]] IN
           /\ d.last_row + packet[c].num_rows = d.size
           /\ d.size = ds_increment[c]

\* caller c's step looks at an extent of extend_dataset's and finds it too
\* short for the batch: n is the extent's name
Grows(c, n) ==
    /\ \/ pc[c] = "ext_var" /\ pc'[c] = "ext_write" /\ n = packet[c].cols[idx[c]]
       \/ pc[c] = "ext_combined" /\ pc'[c] \in {"ext_row", "ext_ccommit"}
          /\ n = DS_VARIABLES
    /\ dsets[n].last_row + packet[c].num_rows > dsets[n].size

\* the rows a grown extent has beyond the batch that made it grow
Headroom(c, n) == dsets'[n].size - (dsets[n].last_row + packet[c].num_rows)

\* C12 as stated: whenever an append grows an extent, the new capacity
\* exceeds last_row + num_rows by at least one full row_increment.
C12_FullIncrementHeadroom ==
    [][\A c \in Callers, n \in DsNames :
         Grows(c, n) => Headroom(c, n) >= ds_increment[c]]_vars

\* C12 amended: whenever an append grows an extent, the capacity grows by
\* at least one full row_increment, and the new capacity exceeds last_row +
\* num_rows by at least row_increment - (num_rows mod row_increment) rows:
\* at least one row, a full increment when num_rows is a multiple of it.
C12_HeadroomAfterGrowth ==
    [][\A c \in Callers, n \in DsNames :
         Grows(c, n) =>
            /\ dsets'[n].size - dsets[n].size >= ds_increment[c]
            /\ Headroom(c, n) >= ds_increment[c] - (packet[c].num_rows % ds_increment[c])
            /\ Headroom(c, n) >= 1]_vars

\* C12 witness: a full extent that never grew before has just grown for a
\* batch, and has less than one increment left beyond the batch
C12_Witness ==
    \E c \in Callers :
        /\ pc[c] = "ext_write" /\ faults = 0
        /\ packet[c].num_rows > 0
        /\ cur_idx[c] = ds_increment[c]
        /\ LET d == dsets[packet[c].cols[idx[c]]] IN
           /\ d.size > ds_increment[c]
           /\ d.size - (cur_idx[c] + packet[c].num_rows) < ds_increment[c]

\* extend_dataset of caller c has returned, and not by a storage failure
\* or a lock timeout
ExtendReturned(c) ==
    /\ pc[c] = "idle" /\ result[c].op = "extend_dataset"
    /\ result[c].status \notin {"StorageIOError", "LockTimeout"}

\* C14 as stated: an append creates the container when there is none and
\* then stores the batch: once extend_dataset has returned the container
\* exists with every extent of the layout, and last_row counts the rows of
\* the batches appended (the batch's row count after the first append).
C14_LazyCreationOnAppend ==
    \A c \in Callers : ExtendReturned(c) =>
        /\ file_exists
        /\ \A n \in Created(c) :
              Live(n) /\ dsets[n].last_row = SumRowsBy(Callers, n)

\* the appends of the scenario that have returned so far: k packets were
\* sent, the last call of caller c was an extend_dataset that has returned,
\* and no storage failure happened
ScenarioAppended(c, k) ==
    /\ ds_layout[c] = DS_LAYOUT_INDIVIDUAL /\ faults = 0
    /\ next_id = k + 1 /\ ExtendReturned(c)

\* the query of the scenario is returning, after both appends
ScenarioQueried(c) ==
    /\ ds_layout[c] = DS_LAYOUT_INDIVIDUAL /\ faults = 0
    /\ next_id = 3 /\ result[c].op = "get_data"
    /\ \/ pc[c] = "get_close" /\ result[c].status = "running"
       \/ pc[c] = "idle" /\ result[c].status = "ok"

\* C13 as stated, for the schema {time, temp} with row_increment 10 and no
\* container at the start: the append of 5 rows leaves every variable with
\* capacity 10 and last_row 5 in a container it created, the append of 8
\* more rows leaves capacity 20 and last_row 13, and a query with max_rows
\* 3 then returns for each variable the rows with indices 10..12 (the time
\* values as milliseconds).
C13_Scenario ==
    \A c \in Callers :
        /\ ScenarioAppended(c, 1) =>
              /\ file_exists
              /\ \A n \in IndividualNames :
                    Live(n) /\ dsets[n].size = 10 /\ dsets[n].last_row = 5
        /\ ScenarioAppended(c, 2) =>
              /\ file_exists
              /\ \A n \in IndividualNames :
                    Live(n) /\ dsets[n].size = 20 /\ dsets[n].last_row = 13
        /\ (ScenarioQueried(c) /\ pc[c] = "get_close") =>
              /\ DOMAIN result[c].data = IndividualNames
              /\ \A n \in IndividualNames :
                    /\ Len(result[c].data[n]) = 3
                    /\ \A k \in 1..3 :
                          result[c].data[n][k] =
                              IF n = "time" THEN unix_millis(dsets[n].rows[10 + k])
                              ELSE dsets[n].rows[10 + k]
        /\ (ScenarioQueried(c) /\ pc[c] = "idle") => file_exists

\* get_data of caller c is returning a mapping, read under its lock
QueryDone(c) == pc[c] = "get_close" /\ result[c].status = "running"

\* the variable is returned as stored under filter f
NotConverted(n, f) ==
    ~(n = time_var /\ BaseType(n) = "ntp_time" /\ f.time_format = "unix_millis")

\* the last k elements of a sequence
LastOf(s, k) == SubSeq(s, Len(s) - k + 1, Len(s))

\* C15: on an Individual-layout container, the sequence a query returns
\* for a variable that is not converted is, element for element and in
\* order, the last min(max_rows, last_row) values appended to the variable.
C15_RoundTrip ==
    \A c \in Callers :
        (QueryDone(c) /\ ~result[c].filter.transpose_time) =>
            \A n \in DOMAIN result[c].data :
                NotConverted(n, result[c].filter) =>
                    result[c].data[n] =
                        LastOf(log[n], Min(result[c].filter.max_rows, dsets[n].last_row))

\* C15 witness: a query with max_rows 3 returns three of the four values
\* that two packets appended to a variable
C15_Witness ==
    \E c \in Callers :
        /\ QueryDone(c) /\ result[c].filter.max_rows = 3
        /\ "temp" \in DOMAIN result[c].data
        /\ Len(log["temp"]) = 4
        /\ Len(result[c].data["temp"]) = 3
        /\ PacketOf(result[c].data["temp"][1]) # PacketOf(result[c].data["temp"][3])

\* Python index of the first row of the trailing window of extent n
WindowFirst(n, max_rows) == Max(dsets[n].last_row - max_rows, 0)

\* the value get_data returns for the stored value v of variable n
Returned(n, f, v) == IF NotConverted(n, f) THEN v ELSE unix_millis(v)

\* C16: a query of an Individual-layout container returns, for every
\* requested variable the container has, exactly the rows with indices
\* [max(last_row - max_rows, 0), last_row) of that variable, by the
\* variable's own last_row: never a row at an index >= last_row, and an
\* empty sequence when last_row is 0 or max_rows is 0.
C16_TrailingWindow ==
    \A c \in Callers :
        (QueryDone(c) /\ ~result[c].filter.transpose_time) =>
            LET f == result[c].filter
                data == result[c].data
            IN  /\ DOMAIN data =
                      {n \in IndividualNames : dsets[n].present /\ InCols(n, read_vars(f))}
                /\ \A n \in DOMAIN data :
                      LET first == WindowFirst(n, f.max_rows) IN
                      /\ Len(data[n]) = dsets[n].last_row - first
                      /\ \A k \in 1..Len(data[n]) :
                            /\ first + k <= dsets[n].last_row
                            /\ data[n][k] = Returned(n, f, dsets[n].rows[first + k])
                      /\ (dsets[n].last_row = 0 \/ f.max_rows = 0) => data[n] = << >>

\* C16 witness: a query returns two variables with different last_row, one
\* of them with allocated rows beyond its last_row
C16_Witness ==
    \E c \in Callers :
        /\ QueryDone(c) /\ ~result[c].filter.transpose_time
        /\ DOMAIN result[c].data = {"time", "temp"}
        /\ Len(result[c].data["time"]) > 0
        /\ Len(result[c].data["temp"]) > Len(result[c].data["time"])
        /\ dsets["time"].size > dsets["time"].last_row

\* caller c is inside get_data, past the existence check
Querying(c) == pc[c] \in {"get_open", "get_read", "get_close"}

\* this step is caller c's call of get_data
QueryCall(c) ==
    /\ pc[c] = "idle" /\ result'[c].op = "get_data"
    /\ pc'[c] # pc[c] \/ result'[c] # result[c]

\* C17: a query of a dataset whose container does not exist returns an
\* empty mapping and no error, whatever the filter (it is never looked
\* at); the query creates nothing and never tries to take the lock.
C17_QueryWithoutContainer ==
    /\ [](\A c \in Callers : Querying(c) => file_exists)
    /\ [][\A c \in Callers : (QueryCall(c) /\ ~file_exists) =>
            /\ pc'[c] = "idle"
            /\ result'[c].status = "ok"
            /\ result'[c].data = << >>
            /\ lock[c] = "none" /\ lock' = lock /\ attempts' = attempts
            /\ fileVars' = fileVars /\ dir_exists' = dir_exists]_vars

\* C17 witness: a query has returned while there is no container
C17_Witness ==
    \E c \in Callers :
        /\ pc[c] = "idle" /\ ~file_exists
        /\ result[c].op = "get_data" /\ result[c].status = "ok"
        /\ result[c].data = << >>

\* this step is a step of caller c inside get_data
QueryStep(c) == Querying(c) /\ (pc'[c] # pc[c] \/ attempts'[c] # attempts[c])

\* C18: a query of an existing Combined-layout container never returns a
\* mapping, partial or empty: once it has the lock it fails with the 'not
\* supported' error (NotImplementedError); no step of it changes an
\* attribute, a capacity or a row of the container, and it returns with
\* its shared lock released.
C18_CombinedQueryUnsupported ==
    [][\A c \in Callers : ds_layout[c] = DS_LAYOUT_COMBINED =>
          /\ (QueryCall(c) /\ file_exists) =>
                pc'[c] = "get_open" /\ result'[c].data = << >>
          /\ QueryStep(c) =>
                /\ fileVars' = fileVars
                /\ result'[c].data = << >>
                /\ result'[c].status # "ok"
          /\ (QueryStep(c) /\ pc[c] = "get_read") =>
                /\ lock[c] = "shared"
                /\ pc'[c] = "get_close"
                /\ result'[c].status = "NotImplementedError"
          /\ (QueryStep(c) /\ pc[c] = "get_close") =>
                /\ pc'[c] = "idle" /\ lock'[c] = "none"
                /\ result'[c].status = "NotImplementedError"]_vars

\* C18 witness: the query of a Combined-layout container that holds rows
\* has failed with NotImplementedError
C18_Witness ==
    \E c \in Callers :
        /\ ds_layout[c] = DS_LAYOUT_COMBINED /\ file_attrs.layout = DS_LAYOUT_COMBINED
        /\ Live(DS_VARIABLES) /\ dsets[DS_VARIABLES].last_row > 0
        /\ pc[c] = "idle" /\ lock[c] = "none"
        /\ result[c].op = "get_data" /\ result[c].status = "NotImplementedError"

\* the time sequence a query with filter f reads from the container
TimeSeries(f) == Converted(time_var, f, Window(dsets[time_var], f.max_rows))

\* C19 as stated: in a result produced with transpose_time, every returned
\* variable's sequence is as long as the time sequence the query read, and
\* its k-th element is the pair of the k-th time value and the k-th value
\* of the variable, whatever the last_row values of the variables are.
C19_TransposeLengths ==
    \A c \in Callers :
        (QueryDone(c) /\ result[c].filter.transpose_time) =>
            LET f == result[c].filter IN
            \A n \in DOMAIN result[c].data :
                /\ Len(result[c].data[n]) = Len(TimeSeries(f))
                /\ \A k \in 1..Len(result[c].data[n]) :
                      result[c].data[n][k] =
                          << TimeSeries(f)[k],
                             Converted(n, f, Window(dsets[n], f.max_rows))[k] >>

\* the body of a get_data with transpose_time of caller c has ended, by a
\* return or by an exception, and no storage failure has ever happened
TransposeEnded(c) ==
    /\ pc[c] = "get_close" /\ ds_layout[c] = DS_LAYOUT_INDIVIDUAL
    /\ result[c].filter.transpose_time
    /\ faults = 0

\* C20 as stated: a query with transpose_time of an existing Individual-
\* layout container succeeds, whatever variables it asks for and whether
\* or not the container has the time variable: the mapping it returns has
\* no entry for the time variable, and every other sequence consists of
\* (time, value) pairs.
C20_TransposeSucceeds ==
    \A c \in Callers : TransposeEnded(c) =>
        /\ result[c].status = "running"
        /\ time_var \notin DOMAIN result[c].data
        /\ \A n \in DOMAIN result[c].data :
              \A k \in 1..Len(result[c].data[n]) :
                  /\ Len(result[c].data[n][k]) = 2
                  /\ result[c].data[n][k][1] = TimeSeries(result[c].filter)[k]

\* this step is caller c's call of require_dataset
RequireCall(c) ==
    /\ pc[c] = "idle" /\ result'[c].op = "require_dataset"
    /\ pc'[c] # pc[c] \/ result'[c] # result[c]

\* C21: require_dataset on an existing container returns at once with
\* created = False, without a lock attempt, and leaves layout, positions,
\* capacities, last_rows and rows as they are; the container, once there,
\* stays, so every require_dataset after a creation returns created = False.
C21_RequireIdempotent ==
    [][/\ file_exists => file_exists'
       /\ \A c \in Callers : (RequireCall(c) /\ file_exists) =>
             /\ pc'[c] = "idle"
             /\ result'[c].status = "ok" /\ ~result'[c].created
             /\ lock[c] = "none" /\ lock' = lock /\ attempts' = attempts
             /\ fileVars' = fileVars /\ dir_exists' = dir_exists]_vars

\* C21 witness: require_dataset has returned created = False while another
\* caller holds the exclusive lock on the container, which has rows
C21_Witness ==
    \E c \in Callers, d \in Callers, n \in DsNames :
        /\ pc[c] = "idle" /\ result[c].op = "require_dataset"
        /\ result[c].status = "ok" /\ ~result[c].created
        /\ lock[d] = "exclusive"
        /\ Live(n) /\ dsets[n].last_row > 0

\* two variables of the list have the same name
NameCollides(variables) ==
    \E i, j \in 1..Len(variables) : i # j /\ variables[i].name = variables[j].name

\* C22 as stated: compiling a schema fails with ConfigurationError when
\* its variable list is empty or two of its variables have the same name,
\* and in no other case.
C22_ConfigurationError ==
    \A c \in Callers : compiled[c].status # "" =>
        (compiled[c].status = "ConfigurationError"
            <=> (dataset_schema.variables = << >>
                    \/ NameCollides(dataset_schema.variables)))

\* C23: compiling a schema never fails on account of its layout: a layout
\* that is missing or is neither Combined nor Individual yields layout
\* Individual, a legal layout is kept as given; a missing row_increment
\* yields 1000 and a missing time variable name yields "time".  (The one
\* failure of the compiler is a row_increment text that is no number.)
C23_SchemaDefaults ==
    \A c \in Callers : compiled[c].status # "" =>
        LET given == dataset_schema.persistence IN
        /\ given.row_increment.kind # "str" => compiled[c].status = "ok"
        /\ compiled[c].status \in {"ok", "ValueError"}
        /\ ds_layout[c] = IF given.layout \in Layouts THEN given.layout
                          ELSE DS_LAYOUT_INDIVIDUAL
        /\ (compiled[c].status = "ok" /\ given.row_increment.kind = "missing") =>
               ds_increment[c] = 1000
        /\ (compiled[c].status = "ok" /\ given.time_variable = Missing) =>
               compiled[c].time_var = "time"

\* C23 witness: a schema with an illegal layout and neither row_increment
\* nor time variable name has been compiled
C23_Witness ==
    \E c \in Callers :
        /\ compiled[c].status = "ok" /\ compiled[c].warned
        /\ dataset_schema.persistence.layout = "vars_bogus"
        /\ dataset_schema.persistence.row_increment = NoIncrement
        /\ dataset_schema.persistence.time_variable = Missing
        /\ ds_layout[c] = DS_LAYOUT_INDIVIDUAL
        /\ ds_increment[c] = DEFAULT_ROW_INCREMENT

\* a name that is no variable of the dataset
Unknown(name) == name \notin IndividualNames

\* this step is caller c's round of the column loop for an unknown column
SkipStep(c) ==
    /\ pc[c] = "ext_var" /\ Unknown(packet[c].cols[idx[c]])
    /\ pc'[c] # pc[c] \/ idx'[c] # idx[c]

\* C24: in an Individual-layout append a packet column that is no variable
\* of the dataset is passed over: the step changes nothing of the container
\* and raises nothing, and the append goes on with the next column, so
\* that the known columns of the packet are written all the same.
C24_UnknownColumnSkipped ==
    /\ [][\A c \in Callers : SkipStep(c) =>
                /\ fileVars' = fileVars
                /\ result'[c].status = "running"
                /\ idx'[c] = idx[c] + 1
                /\ pc'[c] = IF idx[c] < Len(packet[c].cols) THEN "ext_var"
                            ELSE "ext_close"]_vars
    /\ [](\A c \in Callers :
            (ExtendDone(c) /\ ds_layout[c] = DS_LAYOUT_INDIVIDUAL
               /\ NoDuplicate(packet[c].cols)) =>
                \A i \in 1..Len(packet[c].cols) :
                    LET n == packet[c].cols[i] IN
                    (~Unknown(n) /\ Live(n)) =>
                        dsets[n].last_row = start_row[c][n] + packet[c].num_rows)

\* C24 witness: an append of the columns humidity and temp has written the
\* rows of temp
C24_Witness ==
    \E c \in Callers :
        /\ ExtendDone(c) /\ packet[c].cols = << "humidity", "temp" >>
        /\ packet[c].num_rows > 0
        /\ dsets["temp"].last_row = start_row[c]["temp"] + packet[c].num_rows
        /\ dsets["temp"].rows[dsets["temp"].last_row] =
              PacketValue(packet[c].by, packet[c].id, "temp", packet[c].num_rows)

\* caller c is inside the try block of extend_dataset
Extending(c) ==
    pc[c] \in {"ext_var", "ext_write", "ext_commit", "ext_combined", "ext_row",
               "ext_ccommit", "ext_close"}

\* C25: in an Individual-layout append no step changes last_row, capacity
\* or rows of a variable that the packet's column list does not name; so
\* the variables of one container can come to have different last_rows.
C25_AbsentVariablesUntouched ==
    [][\A c \in Callers :
         (Extending(c) /\ ds_layout[c] = DS_LAYOUT_INDIVIDUAL /\ pc'[c] # pc[c]) =>
             \A n \in IndividualNames :
                 ~InCols(n, packet[c].cols) => dsets'[n] = dsets[n]]_vars

\* C25 witness: an append of rows of temp alone has left the two variables
\* of the container with different last_rows
C25_Witness ==
    \E c \in Callers :
        /\ ExtendDone(c) /\ packet[c].cols = << "temp" >> /\ packet[c].num_rows > 0
        /\ Live("time") /\ Live("temp")
        /\ dsets["time"].last_row = start_row[c]["time"]
        /\ dsets["temp"].last_row = start_row[c]["temp"] + packet[c].num_rows
        /\ dsets["temp"].last_row # dsets["time"].last_row

\* the record a Combined-layout append stores for row r (1-based) of the
\* packet: one field per schema variable, in schema order
RecordOf(pkt, r) ==
    [i \in 1..Len(var_defs) |->
        IF \E j \in 1..Len(pkt.cols) : pkt.cols[j] = var_defs[i].name
        THEN PacketValue(pkt.by, pkt.id, var_defs[i].name, r)
        ELSE Null]

\* caller c is inside the try block of a Combined-layout extend_dataset
ExtendingCombined(c) == Extending(c) /\ ds_layout[c] = DS_LAYOUT_COMBINED

\* C26: in a Combined-layout append of n rows the record extent is resized
\* at most once, before the first record is written; the record of row r
\* goes to index last_row + r and has one field per schema variable in
\* schema order, the null sentinel where the packet lacks the variable
\* (columns outside the schema are ignored); after the append the one
\* last_row of the extent, shared by all fields, is n larger.
C26_CombinedAppend ==
    /\ [][\A c \in Callers : (ExtendingCombined(c) /\ pc'[c] # pc[c]) =>
            LET d == dsets[DS_VARIABLES] IN
            /\ pc[c] # "ext_combined" => dsets'[DS_VARIABLES].size = d.size
            /\ (pc[c] = "ext_row" /\ Proceeds(c)) =>
                  /\ idx'[c] = idx[c] + 1
                  /\ dsets'[DS_VARIABLES].rows =
                        [d.rows EXCEPT ![start_row[c][DS_VARIABLES] + idx[c] + 1] =
                                          RecordOf(packet[c], idx[c] + 1)]
            /\ \A n \in IndividualNames : dsets'[n] = dsets[n] /\ ~dsets[n].present]_vars
    /\ [](\A c \in Callers : (ExtendDone(c) /\ ds_layout[c] = DS_LAYOUT_COMBINED) =>
            LET d == dsets[DS_VARIABLES]
                first == start_row[c][DS_VARIABLES]
            IN  /\ d.last_row = first + packet[c].num_rows
                /\ d.last_row <= d.size
                /\ \A r \in 1..packet[c].num_rows :
                      d.rows[first + r] = RecordOf(packet[c], r))

\* C26 witness: a Combined-layout append of two rows with the columns
\* humidity and temp has succeeded on an extent that held rows before
C26_Witness ==
    \E c \in Callers :
        /\ ExtendDone(c) /\ ds_layout[c] = DS_LAYOUT_COMBINED
        /\ packet[c].cols = << "humidity", "temp" >> /\ packet[c].num_rows = 2
        /\ start_row[c][DS_VARIABLES] > 0
        /\ dsets[DS_VARIABLES].size > ds_increment[c]
        /\ dsets[DS_VARIABLES].rows[dsets[DS_VARIABLES].last_row] =
              << Null, PacketValue(packet[c].by, packet[c].id, "temp", 2) >>

\* this step of caller c's extend_dataset raises an exception
FailStep(c) ==
    /\ Extending(c) /\ result[c].status = "running"
    /\ result'[c].status # "running" /\ pc'[c] # "idle"

\* C27: a resize, write or attribute update that fails during an append
\* leaves every last_row as it was and every row below a last_row as it
\* was (last_row is advanced only after the batch was written), so the
\* rows below last_row are always the committed batches, and a later append
\* reads that last_row and writes from there.
C27_FailedAppendKeepsLastRow ==
    /\ [][\A c \in Callers : FailStep(c) =>
            \A n \in DsNames : Live(n) =>
                /\ dsets'[n].last_row = dsets[n].last_row
                /\ \A i \in 1..dsets[n].last_row : dsets'[n].rows[i] = dsets[n].rows[i]]_vars
    /\ [](\A c \in Callers :
            /\ pc[c] \in {"ext_write", "ext_commit"} =>
                  cur_idx[c] = dsets[packet[c].cols[idx[c]]].last_row
            /\ pc[c] \in {"ext_row", "ext_ccommit"} =>
                  cur_idx[c] = dsets[DS_VARIABLES].last_row
            /\ \A n \in DsNames :
                  Live(n) => SubSeq(dsets[n].rows, 1, Len(log[n])) = log[n])

\* C27 witness: after an append failed with a part of its batch written, a
\* later append starts at the unchanged last_row, where the rows of the
\* failed batch lie above committed rows
C27_Witness ==
    \E c \in Callers :
        /\ pc[c] = "ext_write" /\ faults > 0 /\ packet[c].id > 1
        /\ LET d == dsets[packet[c].cols[idx[c]]] IN
           /\ cur_idx[c] = d.last_row /\ d.last_row > 0
           /\ d.last_row < d.size
           /\ d.rows[d.last_row + 1] # Fill
           /\ PacketOf(d.rows[d.last_row + 1]) < packet[c].id

\* the variables a filter asks for
Requested(f) == {read_vars(f)[i] : i \in 1..Len(read_vars(f))}

\* the requested variables that have a dataset in the container
RequestedPresent(f) == {n \in Requested(f) : n \in DsNames /\ dsets[n].present}

\* this step is the try block of caller c's query of an Individual-layout
\* container, with no storage fault in it
IndividualRead(c) ==
    /\ pc[c] = "get_read" /\ pc'[c] # pc[c]
    /\ ds_layout[c] = DS_LAYOUT_INDIVIDUAL /\ faults' = faults

\* C28: a query of an Individual-layout container skips a requested
\* variable that has no dataset in the container: when every dataset it
\* reads has its last_row and no transposition is asked for, the query does
\* not fail and the keys of its result are exactly the requested variables
\* present in the container.
C28_AbsentVariableSkipped ==
    [][\A c \in Callers :
          LET f == result'[c].filter IN
          (/\ IndividualRead(c)
           /\ ~f.transpose_time
           /\ \A n \in RequestedPresent(f) : dsets[n].last_row # NoAttr)
          => /\ result'[c].status = "running"
             /\ DOMAIN result'[c].data = RequestedPresent(f)]_vars

\* C28 witness: a query that asked for a variable the container lacks
\* returns the other requested variables
C28_Witness ==
    \E c \in Callers :
        /\ QueryDone(c) /\ ~result[c].filter.transpose_time
        /\ ds_layout[c] = DS_LAYOUT_INDIVIDUAL
        /\ RequestedPresent(result[c].filter) # Requested(result[c].filter)
        /\ RequestedPresent(result[c].filter) # {}
        /\ DOMAIN result[c].data = RequestedPresent(result[c].filter)

\* the index of variable n in the declaration order of the schema, from 0
DeclaredAt(n) ==
    (CHOOSE i \in 1..Len(dataset_schema.variables) :
        dataset_schema.variables[i].name = n) - 1

\* C29: the position attribute of a variable extent of an Individual-layout
\* container is the variable's index in the declaration order of the schema
\* (the index _parse_schema keeps in var_index), so a created container
\* has the positions 0..n-1, and no later step changes a position.
C29_PositionIsSchemaIndex ==
    /\ [](\A n \in IndividualNames :
            dsets[n].present =>
                /\ dsets[n].position = DeclaredAt(n)
                /\ \A c \in Callers : dsets[n].position = compiled[c].var_index[n])
    /\ [](\A c \in Callers :
            JustCreated(c) /\ ds_layout[c] = DS_LAYOUT_INDIVIDUAL =>
                {dsets[n].position : n \in IndividualNames} =
                    0..(Len(dataset_schema.variables) - 1))
    /\ [][\A n \in IndividualNames :
            dsets[n].present =>
                dsets'[n].present /\ dsets'[n].position = dsets[n].position]_vars

\* C29 witness: after appends the second variable of the schema still has
\* position 1 and the first position 0
C29_Witness ==
    /\ file_attrs.layout = DS_LAYOUT_INDIVIDUAL
    /\ dsets[var_defs[1].name].position = 0
    /\ dsets[var_defs[2].name].position = 1
    /\ dsets[var_defs[2].name].last_row > 0
    /\ dsets[var_defs[2].name].size > initial_shape(MaxIncrement)

\* the container has its layout attribute
LayoutRecorded == file_exists /\ file_attrs.layout # ""

\* C30: the layout attribute a container got at its creation is never
\* changed: no step of a later require_dataset, extend_dataset or get_data
\* changes it, also when the call is made through an object whose schema
\* names the other layout; and the extents stay those of the recorded
\* layout.
C30_LayoutNeverChanges ==
    /\ [][LayoutRecorded =>
            file_exists' /\ file_attrs'.layout = file_attrs.layout]_vars
    /\ [](LayoutRecorded =>
            /\ file_attrs.layout = DS_LAYOUT_INDIVIDUAL => ~dsets[DS_VARIABLES].present
            /\ file_attrs.layout = DS_LAYOUT_COMBINED =>
                  \A n \in IndividualNames : ~dsets[n].present)

\* C30 witness: an append through an object of the other layout has run
\* through on a container that has its layout
C30_Witness ==
    \E c \in Callers :
        /\ LayoutRecorded /\ ds_layout[c] # file_attrs.layout
        /\ pc[c] = "ext_close" /\ result[c].status = "running"
        /\ packet[c].num_rows > 0

Dumping(c) == pc[c] \in {"dump_open", "dump_visit"}

\* this step is a step of caller c's get_data or dump_hdf5, the call
\* included
ReadOnlyStep(c) ==
    \/ QueryCall(c)
    \/ QueryStep(c)
    \/ pc[c] = "idle" /\ result'[c].op = "dump_hdf5" /\ result'[c] # result[c]
    \/ Dumping(c) /\ (pc'[c] # pc[c] \/ attempts'[c] # attempts[c])

\* C31: no step of get_data (with any filter, returning or raising) and no
\* step of dump_hdf5 changes the container: the file, its attributes, and
\* every dataset's size, last_row, attributes and rows stay as they were.
C31_ReadOnlyOperations ==
    [][\A c \in Callers :
          ReadOnlyStep(c) =>
              /\ file_exists' = file_exists
              /\ file_attrs' = file_attrs
              /\ dsets' = dsets]_vars

\* C31 witness: a query of a container that holds committed rows has read
\* its data and failed in the transposition, the container still as it was
C31_Witness ==
    \E c \in Callers :
        /\ pc[c] = "get_close" /\ result[c].status = "KeyError"
        /\ \E n \in IndividualNames :
              /\ Live(n) /\ dsets[n].last_row > 0
              /\ Committed(n) = log[n]

\* caller c has passed the existence check of require_dataset and has not
\* yet called os.makedirs
PassedCheck(c) == pc[c] = "req_makedirs"

\* this step is caller c's os.makedirs
MakedirsStep(c) == PassedCheck(c) /\ pc'[c] # pc[c]

\* C32: the existence check and the creation of require_dataset are
\* separate steps: the check of an absent container changes nothing and
\* sends the caller on to os.makedirs, and a caller that has passed the
\* check attempts the creation without looking again, whatever happened to
\* the container meanwhile (the directory is made and the file opened, or
\* os.makedirs raises).  So two callers can both pass the check before
\* either has created the container, and both then attempt the creation.
C32_CheckThenCreate ==
    [][\A c \in Callers :
          /\ (RequireCall(c) /\ ~file_exists) =>
                /\ pc'[c] = "req_makedirs"
                /\ UNCHANGED << dir_exists, file_exists, file_attrs, dsets, lock >>
          /\ MakedirsStep(c) =>
                \/ ~dir_exists /\ dir_exists' /\ pc'[c] = "req_open"
                \/ dir_exists /\ pc'[c] = "idle" /\ result'[c].status = "OSError"]_vars

\* C32 witness: both callers have passed the existence check, and neither
\* has created the directory or the container
C32_Witness ==
    /\ \A c \in Callers : PassedCheck(c)
    /\ ~file_exists /\ ~dir_exists

\* caller c is inside require_dataset, past the existence check
Requiring(c) == pc[c] \in {"req_makedirs", "req_open", "req_attrs", "req_var",
                           "req_combined", "req_close"}

\* this step is a step of caller c's require_dataset after the check
RequireStep(c) == Requiring(c) /\ (pc'[c] # pc[c] \/ attempts'[c] # attempts[c])

\* the container holds committed rows
HasRows == \E n \in DsNames : Live(n) /\ dsets[n].last_row > 0

\* C33: a require_dataset that passed its existence check before the
\* container existed never re-initialises a container that another caller
\* has created and appended rows to since: no step of it changes the file's
\* attributes, or any dataset's size, last_row or rows.
C33_StaleRequireKeepsContainer ==
    [][\A c \in Callers :
          RequireStep(c) /\ HasRows =>
              /\ file_exists'
              /\ file_attrs' = file_attrs
              /\ dsets' = dsets]_vars

\* C33 witness: a require_dataset that had passed the existence check has
\* made its attempt on a container that meanwhile holds rows, and returned
\* with the error of os.makedirs
C33_Witness ==
    \E c \in Callers :
        /\ HasRows
        /\ pc[c] = "idle" /\ result[c].op = "require_dataset"
        /\ result[c].status = "OSError"
        /\ \E d \in Callers \ {c} : rows_by[d][CHOOSE n \in DsNames : Live(n) /\ dsets[n].last_row > 0] > 0

\* caller c's require_dataset has returned (or raised) and the caller has
\* called nothing since
RequireReturned(c) == pc[c] = "idle" /\ result[c].op = "require_dataset"

\* C34: with no storage fault and no other caller, require_dataset on an
\* absent container returns created = True, whether or not the parent
\* directory of the container path existed: it never ends with an error
\* while the container is still absent.
C34_CreatesInExistingDirectory ==
    \A c \in Callers :
        RequireReturned(c) /\ faults = 0 =>
            /\ result[c].status = "ok"
            /\ file_exists

\* this step is the try block of caller c's get_data: the read of the rows
ReadStep(c) == pc[c] = "get_read" /\ pc'[c] # pc[c]

\* the number of committed values of extent n that came from packet p
FromPacket(n, p) == Cardinality({i \in 1..Len(log[n]) : PacketOf(log[n][i]) = p})

\* every packet is in the committed rows of the time variable with all the
\* rows it has in those of the other variables, or with none
WholeBatches ==
    \A i \in 1..Len(log[time_var]) :
        \A n \in IndividualNames :
            FromPacket(n, PacketOf(log[time_var][i])) =
                FromPacket(time_var, PacketOf(log[time_var][i]))

\* C35: a query never reads in the middle of an append: when it reads the
\* rows no other caller is inside the try block of a write, the rows below
\* every last_row are the committed batches, and (no storage fault having
\* cut an append short) a packet is there with all its rows on all its
\* variables or not at all.
C35_QuerySeesWholeAppends ==
    [][\A c \in Callers :
          ReadStep(c) =>
              /\ \A d \in Callers \ {c} : ~Writing(d)
              /\ \A n \in DsNames : Live(n) => Committed(n) = log[n]
              /\ faults = 0 => WholeBatches]_vars

\* C35 witness: a query has read rows of both variables while an append of
\* another caller waits for the lock the query holds
C35_Witness ==
    \E c \in Callers, d \in Callers :
        /\ QueryDone(c) /\ c # d
        /\ DOMAIN result[c].data = IndividualNames
        /\ \A n \in IndividualNames : Len(result[c].data[n]) > 0
        /\ pc[d] = "ext_open" /\ attempts[d] > 0

\* C36: under fair scheduling every operation that has started returns (with
\* its result or with an exception, LockTimeout after the last attempt at
\* the lock), and every lock that is held is released.
C36_OperationsReturn ==
    \A c \in Callers :
        /\ (pc[c] # "idle") ~> (pc[c] = "idle")
        /\ (lock[c] # "none") ~> (lock[c] = "none")

\* C36 witness: an operation has given up with LockTimeout after its last
\* attempt, while the other caller still holds the lock
C36_Witness ==
    \E c \in Callers, d \in Callers :
        /\ pc[c] = "idle" /\ result[c].status = "LockTimeout"
        /\ lock[d] # "none"

\* caller c's Individual-layout append has raised in its try block and is
\* about to close the file; idx[c] is the column it failed at
FailedAppend(c) ==
    /\ pc[c] = "ext_close" /\ ds_layout[c] = DS_LAYOUT_INDIVIDUAL
    /\ result[c].status # "running"

\* the columns of caller c's packet before the failing one that name n
DoneBefore(c, n) == {i \in 1..(idx[c] - 1) : packet[c].cols[i] = n}

\* C37: when an Individual-layout append of n rows fails at some column,
\* every variable of a column before it has its last_row advanced by n and
\* the batch in the rows from its previous last_row on, and every other
\* variable, the failing one included, has its previous last_row; so every
\* last_row is its previous value or that plus n.
C37_PartialFailure ==
    \A c \in Callers : FailedAppend(c) =>
        \A n \in IndividualNames : Live(n) =>
            LET prev == start_row[c][n]
                rows == packet[c].num_rows IN
            /\ dsets[n].last_row = prev + rows * Cardinality(DoneBefore(c, n))
            /\ dsets[n].last_row \in {prev, prev + rows}
            /\ DoneBefore(c, n) # {} =>
                  SubSeq(dsets[n].rows, prev + 1, prev + rows) = data_slice(packet[c], n)

\* C37 witness: an append of both variables failed at the second: the
\* first variable is advanced by the batch and the second is not
C37_Witness ==
    \E c \in Callers :
        /\ FailedAppend(c) /\ packet[c].cols = <<"time", "temp">> /\ idx[c] = 2
        /\ packet[c].num_rows > 0
        /\ dsets["time"].last_row = start_row[c]["time"] + packet[c].num_rows
        /\ dsets["temp"].last_row = start_row[c]["temp"]
        /\ dsets["time"].last_row # dsets["temp"].last_row

\* the base type the schema gives variable n
SchemaBaseType(n) ==
    LET v == CHOOSE d \in {dataset_schema.variables[j] : j \in 1..Len(dataset_schema.variables)} :
                 d.name = n
    IN  v.base_type

\* the stored rows a query with max_rows reads of extent n
StoredWindow(n, max_rows) ==
    LET last == dsets[n].last_row
        k == IF max_rows < last THEN max_rows ELSE last
    IN  SubSeq(dsets[n].rows, last - k + 1, last)

\* C38: a query returns a variable's values converted to unix
\* milliseconds exactly when the variable is the time variable, its base
\* type in the schema is ntp_time and time_format is "unix_millis"; in
\* every other case it returns them as stored; either way they are as many
\* as the stored rows read and in their order.
C38_TimeConversion ==
    \A c \in Callers :
        QueryDone(c) /\ ~result[c].filter.transpose_time =>
            \A n \in DOMAIN result[c].data :
                LET f == result[c].filter
                    w == StoredWindow(n, f.max_rows)
                    out == result[c].data[n] IN
                /\ Len(out) = Len(w)
                /\ \A i \in 1..Len(w) :
                      out[i] = IF /\ n = DEFAULT_TIME_VARIABLE
                                  /\ SchemaBaseType(n) = "ntp_time"
                                  /\ f.time_format = "unix_millis"
                               THEN unix_millis(w[i]) ELSE w[i]

\* C38 witness: a query with time_format unix_millis returns the values of
\* a time variable whose base type is not ntp_time as they are stored
C38_Witness ==
    \E c \in Callers :
        /\ QueryDone(c) /\ ~result[c].filter.transpose_time
        /\ result[c].filter.time_format = "unix_millis"
        /\ SchemaBaseType(DEFAULT_TIME_VARIABLE) # "ntp_time"
        /\ DEFAULT_TIME_VARIABLE \in DOMAIN result[c].data
        /\ Len(result[c].data[DEFAULT_TIME_VARIABLE]) > 1
        /\ result[c].data[DEFAULT_TIME_VARIABLE] =
              StoredWindow(DEFAULT_TIME_VARIABLE, result[c].filter.max_rows)

\* C39: while an Individual-layout append of n rows runs, every
\* variable's last_row is at most n above what it was when the append took
\* the lock, whatever the packet's column list, a list that names a
\* variable twice included.
C39_AdvancesAtMostOnce ==
    \A c \in Callers :
        Extending(c) /\ ds_layout[c] = DS_LAYOUT_INDIVIDUAL /\ faults = 0 =>
            \A n \in IndividualNames : Live(n) =>
                dsets[n].last_row <= start_row[c][n] + packet[c].num_rows

====
